---- MODULE Spec2Model ----
(***************************************************************************)
(* Verification model of codex-agent-team: the task DAG                    *)
(* (internal/task/types.go), the DAG executor (internal/task/executor.go), *)
(* the session wrapper (internal/session/session.go), the JSON-RPC client  *)
(* (internal/codexrpc), the agent manager (internal/agent/types.go) and    *)
(* the WebSocket hub of the API server (package api).                      *)
(*                                                                         *)
(* Fourteen specifications share the module:                               *)
(*   SpecDAG    - AddTask, HasCycle and TopologicalOrder on a growing DAG  *)
(*   SpecStatus - the status operations and ReadyTasks on a growing DAG    *)
(*   Spec       - Session.Execute / Executor.Run with its task goroutines  *)
(*   SpecLive   - Executor.Run under weak fairness of every step           *)
(*   SpecCancel - Executor.Run when agents' turns need not end             *)
(*   SpecEvents - Executor.Run with its event channel nearly full          *)
(*   SpecRPC    - concurrent Client.Call against the read loop             *)
(*   SpecAgent  - agent.Manager with the subprocesses' notifications       *)
(*   SpecUnread - agent.Manager with its event channel nearly full         *)
(*   SpecApproval - one agent whose subprocesses send server requests      *)
(*   SpecSession - Decompose, Execute and Merge called on one session      *)
(*   SpecMerge  - the sequential merge of a plan with the merger agent     *)
(*   SpecTask   - executeTask with its workspace, its agent and cleanup    *)
(*   SpecHub    - the WebSocket hub, its clients and a slow reader         *)
(***************************************************************************)
EXTENDS Integers, Sequences, FiniteSets, TLC

(***************************************************************************)
(* Bounds of the model                                                     *)
(***************************************************************************)
\* longest DependsOn list AddTask is offered in SpecDAG
MaxDeps == 2
\* most dependency entries in the whole DAG in SpecDAG
MaxEdges == 4
\* most dependency entries in the whole DAG in SpecStatus
MaxStatusEdges == 2

\* task IDs of SpecDAG, and an ID that names no task
DagIDs == {"a", "b", "c"}
UnknownID == "zz"
DepIDs == DagIDs \cup {UnknownID}

(***************************************************************************)
(* task.TaskStatus                                                         *)
(***************************************************************************)
StatusPending == "pending"
StatusReady == "ready"
StatusRunning == "running"
StatusCompleted == "completed"
StatusFailed == "failed"
StatusCancelled == "cancelled"
TaskStatus ==
  {StatusPending, StatusReady, StatusRunning, StatusCompleted, StatusFailed,
   StatusCancelled}

VARIABLES
  tasks,        \* DAG.tasks: task ID -> [Status, DependsOn, BranchName, ResultCommit]
  dagRet,       \* what the latest DAG operation returned (SpecDAG, SpecStatus)
  sessStatus,   \* Session.Status; "none" when the executor is used without a session
  maxParallel,  \* Executor.maxParallel
  pc,           \* where Executor.Run (and Session.Execute around it) stands
  batch,        \* the part of Run's ready list the for loop has not launched yet
  sem,          \* number of slots held in Run's semaphore channel
  wg,           \* counter of Run's WaitGroup
  body,         \* task ID -> where the task's goroutine stands
  bodyErr,      \* task ID -> the error executeTask returned, "" for nil
  eventCh,      \* Executor.eventCh, the buffered channel
  evlog,        \* task ID -> the event types sent for the task so far, in order
  ctxDone,      \* the caller's context is cancelled
  runCancelled, \* Run's cancel() has been called
  runRet,       \* what Run returned: "none", "nil", "failed", "ctx"
  env,          \* the surroundings of the run, fixed when it starts
  nextID,       \* Client.nextID
  pendingCalls, \* Client.pendingCalls: request ID -> the call whose channel it holds
  call,         \* caller -> [pc, id, ch, ctxDone, ret] of its Client.Call
  loop,         \* where Client.readLoop stands: "reading", "closing", "exited"
  done,         \* Client.done is closed
  agents,       \* Manager.agents: agent ID -> the subprocess of its Instance
  procs,        \* the subprocesses started so far, each with its Client and Instance
  mgrEventCh,   \* Manager.eventCh, the buffered channel
  mgrOp,        \* the SpawnAgent or StopAgent call that holds Manager.mu
  mgrRet,       \* what the latest Manager call returned, and how many have returned
  srvReqs,      \* the server requests dispatched so far, one goroutine each
  outbox,       \* the response lines written to the subprocesses' stdin, in order
  waiters,      \* caller -> [pc, proc, ctxDone, ret] of its WaitForCompletion
  notified,     \* number of notifications the read loops have dispatched
  sessCall,     \* the call on the Session that is in progress
  sessRet,      \* what the latest call on the Session returned, and how many have
  repo,         \* the checkout the Merger merges into
  mrg,          \* where mergeSequentialWithAgent stands, its plan and its result
  work,         \* task ID -> its workspace: none, clean, dirty or removed
  reg,          \* task ID -> its agent in the Manager: none, registered or stopped
  rev,          \* task ID -> the revision CommitChanges returned to executeTask
  hub           \* the WebSocket Hub, its Run loop and the goroutines of its clients

dagVars == <<tasks, dagRet>>
execVars ==
  <<sessStatus, maxParallel, pc, batch, sem, wg, body, bodyErr, eventCh, evlog,
    ctxDone, runCancelled, runRet, env>>
rpcVars == <<nextID, pendingCalls, call, loop, done>>
agentVars ==
  <<agents, procs, mgrEventCh, mgrOp, mgrRet, srvReqs, outbox, waiters, notified>>

\* what the actions of one part of the program leave alone
sessionVars == <<sessCall, sessRet>>
mergeVars == <<repo, mrg>>
taskVars == <<work, reg, rev>>
hubVars == <<hub>>
outsideDAG == <<execVars, rpcVars, agentVars, sessionVars, mergeVars, taskVars, hubVars>>
outsideExec == <<rpcVars, agentVars, sessionVars, mergeVars, taskVars, hubVars>>
outsideRPC == <<dagVars, execVars, agentVars, sessionVars, mergeVars, taskVars, hubVars>>
outsideAgent == <<dagVars, execVars, rpcVars, sessionVars, mergeVars, taskVars, hubVars>>

(***************************************************************************)
(* Helpers on sequences and sets                                           *)
(***************************************************************************)
Range(s) == {s[i] : i \in 1..Len(s)}

\* every order in which a Go map with key set S can be iterated
Orders(S) ==
  {s \in [1..Cardinality(S) -> S] : \A i, j \in 1..Cardinality(S) : i # j => s[i] # s[j]}

SeqsUpTo(S, n) == UNION {[1..k -> S] : k \in 0..n}

NewTask(deps) ==
  [Status |-> StatusPending, DependsOn |-> deps, BranchName |-> "", ResultCommit |-> ""]

(***************************************************************************)
(* DAG.ReadyTasks                                                          *)
(***************************************************************************)
\* the mutant: a dependency that is not in the DAG counts as satisfied
allDepsCompletedSkipMissing(g, deps, i) ==
  \A k \in i..Len(deps) : deps[k] \in DOMAIN g => g[deps[k]].Status = StatusCompleted

\* the mutant: only the first dependency is looked at
allDepsCompletedFirstOnly(g, deps, i) ==
  Len(deps) < i \/ (deps[i] \in DOMAIN g /\ g[deps[i]].Status = StatusCompleted)

\* the inner loop over t.DependsOn with its break
RECURSIVE allDepsCompleted(_, _, _)
allDepsCompleted(g, deps, i) ==
  IF i > Len(deps) THEN TRUE
  ELSE IF deps[i] \notin DOMAIN g \/ g[deps[i]].Status # StatusCompleted THEN FALSE
  ELSE allDepsCompleted(g, deps, i + 1)

\* the mutant: the pending filter is lost for tasks that have dependencies
isReadyNoPendingFilter(g, id) ==
  \/ allDepsCompleted(g, g[id].DependsOn, 1) /\ Len(g[id].DependsOn) > 0
  \/ Len(g[id].DependsOn) = 0 /\ g[id].Status = StatusPending

\* is t appended to ready
isReady(g, id) ==
  /\ g[id].Status = StatusPending
  /\ \/ allDepsCompleted(g, g[id].DependsOn, 1) /\ Len(g[id].DependsOn) > 0
     \/ Len(g[id].DependsOn) = 0 /\ g[id].Status = StatusPending

\* the tasks of the returned list; its order is the map's iteration order
ReadyTasks(g) == {id \in DOMAIN g : isReady(g, id)}

(***************************************************************************)
(* DAG.hasCycleLocked: three-colour DFS along DependsOn                    *)
(***************************************************************************)
colorWhite == 0
colorGray == 1
colorBlack == 2

\* colors is a Go map: a key that was never written reads as colorWhite
colorOf(st, id) == IF id \in DOMAIN st.colors THEN st.colors[id] ELSE colorWhite

setColor(st, id, c) ==
  [st EXCEPT !.colors = [k \in DOMAIN st.colors \cup {id} |->
                           IF k = id THEN c ELSE st.colors[k]]]

\* the mutant: a finished node is never marked black, so it stays "in the path"
RECURSIVE dfsNoBlack(_, _, _), dfsDepsNoBlack(_, _, _, _)
dfsNoBlack(g, st, nodeID) ==
  IF st.hasCycle THEN st
  ELSE IF colorOf(st, nodeID) = colorGray THEN [st EXCEPT !.hasCycle = TRUE]
  ELSE IF colorOf(st, nodeID) = colorBlack THEN st
  ELSE LET st1 == setColor(st, nodeID, colorGray)
       IN IF nodeID \in DOMAIN g
            THEN dfsDepsNoBlack(g, st1, g[nodeID].DependsOn, 1)
            ELSE st1

dfsDepsNoBlack(g, st, deps, i) ==
  IF i > Len(deps) THEN st
  ELSE dfsDepsNoBlack(g, dfsNoBlack(g, st, deps[i]), deps, i + 1)

RECURSIVE dfs(_, _, _), dfsDeps(_, _, _, _)
dfs(g, st, nodeID) ==
  IF st.hasCycle THEN st
  ELSE IF colorOf(st, nodeID) = colorGray THEN [st EXCEPT !.hasCycle = TRUE]
  ELSE IF colorOf(st, nodeID) = colorBlack THEN st
  ELSE LET st1 == setColor(st, nodeID, colorGray)
           st2 == IF nodeID \in DOMAIN g
                    THEN dfsDeps(g, st1, g[nodeID].DependsOn, 1)
                    ELSE st1
       IN setColor(st2, nodeID, colorBlack)

dfsDeps(g, st, deps, i) ==
  IF i > Len(deps) THEN st ELSE dfsDeps(g, dfs(g, st, deps[i]), deps, i + 1)

\* the loop "for id := range d.tasks" taken in the order ord
RECURSIVE dfsFrom(_, _, _, _)
dfsFrom(g, st, ord, i) ==
  IF i > Len(ord) THEN st
  ELSE dfsFrom(g, IF colorOf(st, ord[i]) = colorWhite THEN dfs(g, st, ord[i]) ELSE st,
               ord, i + 1)

hasCycleLocked(g, ord) ==
  dfsFrom(g, [colors |-> <<>>, hasCycle |-> FALSE], ord, 1).hasCycle

HasCycle(g, ord) == hasCycleLocked(g, ord)

(***************************************************************************)
(* DAG.TopologicalOrder: Kahn's algorithm                                  *)
(***************************************************************************)
\* "for range t.DependsOn { inDegree[t.ID]++ }": one per entry of the list
inDegreeInit(g) == [id \in DOMAIN g |-> Len(g[id].DependsOn)]

\* the initial queue: "for id, degree := range inDegree" in the order ord
RECURSIVE zeroDegree(_, _, _)
zeroDegree(inDeg, ord, i) ==
  IF i > Len(ord) THEN <<>>
  ELSE (IF inDeg[ord[i]] = 0 THEN <<ord[i]>> ELSE <<>>) \o zeroDegree(inDeg, ord, i + 1)

\* the inner loop over t.DependsOn: decrement once and break
RECURSIVE hasDep(_, _, _)
hasDep(deps, cur, i) ==
  IF i > Len(deps) THEN FALSE
  ELSE IF deps[i] = cur THEN TRUE
  ELSE hasDep(deps, cur, i + 1)

\* "for _, t := range d.tasks" after dequeuing cur, in the order ord
RECURSIVE relax(_, _, _, _, _)
relax(g, ks, cur, ord, i) ==
  IF i > Len(ord) THEN ks
  ELSE LET t == ord[i]
           hit == hasDep(g[t].DependsOn, cur, 1)
           deg == IF hit THEN ks.inDeg[t] - 1 ELSE ks.inDeg[t]
           ks1 == [inDeg |-> [ks.inDeg EXCEPT ![t] = deg],
                   queue |-> IF hit /\ deg = 0 THEN Append(ks.queue, t) ELSE ks.queue]
       IN relax(g, ks1, cur, ord, i + 1)

RECURSIVE kahn(_, _, _, _)
kahn(g, ks, result, ord) ==
  IF Len(ks.queue) = 0 THEN result
  ELSE LET current == Head(ks.queue)
           ks1 == [ks EXCEPT !.queue = Tail(ks.queue)]
       IN kahn(g, relax(g, ks1, current, ord, 1), Append(result, current), ord)

\* ord1, ord2: the iteration orders of the maps inDegree and d.tasks
TopologicalOrder(g, ord1, ord2) ==
  IF hasCycleLocked(g, ord2)
    THEN [err |-> TRUE, list |-> <<>>]
    ELSE LET inDeg == inDegreeInit(g)
             ks == [inDeg |-> inDeg, queue |-> zeroDegree(inDeg, ord1, 1)]
         IN [err |-> FALSE, list |-> kahn(g, ks, <<>>, ord2)]

(***************************************************************************)
(* DAG.AllCompleted, DAG.HasFailed                                         *)
(***************************************************************************)
IsTerminal(s) == s \in {StatusCompleted, StatusFailed, StatusCancelled}

AllCompleted(g) == \A id \in DOMAIN g : IsTerminal(g[id].Status)

\* the mutant: the test looks for cancelled tasks
HasFailedLooksForCancelled(g) == \E id \in DOMAIN g : g[id].Status = StatusCancelled

HasFailed(g) == \E id \in DOMAIN g : g[id].Status = StatusFailed

(***************************************************************************)
(* The mutating DAG operations, as functions of the map                    *)
(***************************************************************************)
\* the mutant: the write is lost
UpdateStatusDropped(g, id, status) == g

UpdateStatus(g, id, status) ==
  IF id \in DOMAIN g THEN [g EXCEPT ![id].Status = status] ELSE g

SetTaskCompleted(g, id) ==
  IF id \in DOMAIN g THEN [g EXCEPT ![id].Status = StatusCompleted] ELSE g

\* the mutant: the failure is recorded as a completion
SetTaskFailedAsCompleted(g, id) ==
  IF id \in DOMAIN g THEN [g EXCEPT ![id].Status = StatusCompleted] ELSE g

SetTaskFailed(g, id) ==
  IF id \in DOMAIN g THEN [g EXCEPT ![id].Status = StatusFailed] ELSE g

UpdateTaskResult(g, id, commitSHA) ==
  IF id \in DOMAIN g THEN [g EXCEPT ![id].ResultCommit = commitSHA] ELSE g

AddTaskTo(g, id, deps) ==
  [k \in DOMAIN g \cup {id} |-> IF k = id THEN NewTask(deps) ELSE g[k]]

(***************************************************************************)
(* SpecDAG: the operations applied to a DAG built by AddTask               *)
(***************************************************************************)
EdgeCount(g) ==
  LET RECURSIVE sum(_)
      sum(S) == IF S = {} THEN 0
                ELSE LET x == CHOOSE y \in S : TRUE
                     IN Len(g[x].DependsOn) + sum(S \ {x})
  IN sum(DOMAIN g)

\* no executor exists
ExecIdle ==
  /\ sessStatus = "none"
  /\ maxParallel = 0
  /\ pc = "idle"
  /\ batch = <<>>
  /\ sem = 0
  /\ wg = 0
  /\ body = <<>>
  /\ bodyErr = <<>>
  /\ eventCh = <<>>
  /\ evlog = <<>>
  /\ ctxDone = FALSE
  /\ runCancelled = FALSE
  /\ runRet = "none"
  /\ env = [reader |-> FALSE, cancellable |-> FALSE, revs |-> {}]

\* no client exists
RpcIdle ==
  /\ nextID = 0
  /\ pendingCalls = <<>>
  /\ call = <<>>
  /\ loop = "none"
  /\ done = FALSE

\* no manager call is in progress
NoOp == [kind |-> "none", id |-> "", proc |-> 0, pc |-> ""]

\* the read loop holds no notification
NoNotif == [method |-> "", status |-> ""]

\* NewManager: no agent, no subprocess, an empty event channel
NewManager ==
  /\ agents = <<>>
  /\ procs = <<>>
  /\ mgrEventCh = <<>>
  /\ mgrOp = NoOp
  /\ mgrRet = [n |-> 0, op |-> "NewManager", id |-> "", err |-> ""]
  /\ srvReqs = <<>>
  /\ outbox = <<>>
  /\ notified = 0

\* no executeTask is followed step by step
TaskIdle ==
  /\ work = <<>>
  /\ reg = <<>>
  /\ rev = <<>>

\* no hub is run
HubIdle == hub = <<>>

\* no merge is made
MergeIdle ==
  /\ repo = <<>>
  /\ mrg = <<>>

\* no call is made on a session
SessionIdle ==
  /\ sessCall = [op |-> "none", pc |-> "", decomp |-> <<>>, i |-> 0]
  /\ sessRet = [n |-> 0, op |-> "none", err |-> ""]
  /\ MergeIdle
  /\ TaskIdle
  /\ HubIdle

\* no manager is used
AgentIdle ==
  /\ NewManager
  /\ waiters = <<>>
  /\ SessionIdle

InitDAG ==
  /\ tasks = <<>>
  /\ dagRet = [op |-> "NewDAG"]
  /\ ExecIdle
  /\ RpcIdle
  /\ AgentIdle

\* DAG.AddTask, offered any ID and any dependency list within the bounds
DagAddTask(maxEdges) ==
  \E id \in DagIDs :
    IF id \in DOMAIN tasks
      THEN /\ dagRet' = [op |-> "AddTask", err |-> TRUE]
           /\ UNCHANGED <<tasks, outsideDAG>>
      ELSE \E deps \in SeqsUpTo(DepIDs, MaxDeps) :
             /\ EdgeCount(tasks) + Len(deps) <= maxEdges
             /\ tasks' = AddTaskTo(tasks, id, deps)
             /\ dagRet' = [op |-> "AddTask", err |-> FALSE]
             /\ UNCHANGED outsideDAG

DagAddTaskGraph == DagAddTask(MaxEdges)

DagAddTaskStatus == DagAddTask(MaxStatusEdges)

DagUpdateStatus ==
  \E id \in DOMAIN tasks, s \in TaskStatus :
    /\ tasks' = UpdateStatus(tasks, id, s)
    /\ dagRet' = [op |-> "write"]
    /\ UNCHANGED outsideDAG

DagSetTaskCompleted ==
  \E id \in DOMAIN tasks :
    /\ tasks' = SetTaskCompleted(tasks, id)
    /\ dagRet' = [op |-> "write"]
    /\ UNCHANGED outsideDAG

DagSetTaskFailed ==
  \E id \in DOMAIN tasks :
    /\ tasks' = SetTaskFailed(tasks, id)
    /\ dagRet' = [op |-> "write"]
    /\ UNCHANGED outsideDAG

DagReadyTasks ==
  /\ dagRet' = [op |-> "ReadyTasks", ids |-> ReadyTasks(tasks)]
  /\ UNCHANGED <<tasks, outsideDAG>>

DagHasCycle ==
  \E ord \in Orders(DOMAIN tasks) :
    /\ dagRet' = [op |-> "HasCycle", val |-> HasCycle(tasks, ord)]
    /\ UNCHANGED <<tasks, outsideDAG>>

DagTopologicalOrder ==
  \E ord1 \in Orders(DOMAIN tasks), ord2 \in Orders(DOMAIN tasks) :
    /\ dagRet' = [op |-> "TopologicalOrder"] @@ TopologicalOrder(tasks, ord1, ord2)
    /\ UNCHANGED <<tasks, outsideDAG>>

DagAllCompleted ==
  /\ dagRet' = [op |-> "AllCompleted", val |-> AllCompleted(tasks)]
  /\ UNCHANGED <<tasks, outsideDAG>>

DagHasFailed ==
  /\ dagRet' = [op |-> "HasFailed", val |-> HasFailed(tasks)]
  /\ UNCHANGED <<tasks, outsideDAG>>

\* the graph operations on every DAG AddTask can build
NextDAG ==
  \/ DagAddTaskGraph
  \/ DagHasCycle
  \/ DagTopologicalOrder

\* the status operations on every DAG AddTask can build
NextStatus ==
  \/ DagAddTaskStatus
  \/ DagUpdateStatus
  \/ DagSetTaskCompleted
  \/ DagSetTaskFailed
  \/ DagReadyTasks
  \/ DagAllCompleted
  \/ DagHasFailed

vars == <<dagVars, execVars, rpcVars, agentVars, sessionVars, mergeVars, taskVars, hubVars>>

SpecDAG == InitDAG /\ [][NextDAG]_vars

SpecStatus == InitDAG /\ [][NextStatus]_vars

(***************************************************************************)
(* Executor.Run and Session.Execute                                        *)
(***************************************************************************)
\* largest maxParallel handed to NewExecutor directly
MaxParallelArg == 2
\* the maxParallel Session.Execute hands to NewExecutor
SessionMaxParallel == 3
\* capacity of Executor.eventCh
EventChCap == 256

\* the DAGs Executor.Run is started on: task ID -> DependsOn
DagLinear == [a |-> <<>>, b |-> <<"a">>, c |-> <<"b">>]
DagDiamond == [a |-> <<>>, b |-> <<"a">>, c |-> <<"a">>, d |-> <<"b", "c">>]
DagCascade == [a |-> <<>>, b |-> <<"a">>, c |-> <<"a">>]
DagIndependent == [a |-> <<>>, b |-> <<>>]
DagCycle == [a |-> <<"b">>, b |-> <<"a">>]
DagCycleAndRoot == [a |-> <<"b">>, b |-> <<"a">>, c |-> <<>>]
DagDangling == [a |-> <<>>, b |-> <<UnknownID>>]
\* run against every behaviour of the caller, the event reader and the workspace
OpenDAGs == {DagIndependent, DagCycle, DagCycleAndRoot, DagDangling}
\* the scenarios S1, S2 and S4, run with the environment held still
ScenarioDAGs == {DagLinear, DagDiamond, DagCascade}

\* the surroundings of one run: is Executor.Events() read, can the caller's
\* context be cancelled, which revisions CommitChanges returns ("": nothing to commit)
EnvOpen == [reader |-> TRUE, cancellable |-> TRUE, revs |-> {"", "sha"}]
EnvStill == [reader |-> FALSE, cancellable |-> FALSE, revs |-> {"sha"}]

\* NewExecutor: a maxParallel <= 0 becomes 1
NewExecutorMaxParallel(n) == IF n <= 0 THEN 1 ELSE n

\* the mutant: cancel() of the run scope reaches nobody
RunCtxDoneCallerOnly == ctxDone

\* runCtx.Done(): runCtx is cancelled by its own cancel() or with its parent
RunCtxDone == ctxDone \/ runCancelled

InitExec(dag, viaSession, n, e) ==
  /\ env = e
  /\ tasks = [id \in DOMAIN dag |-> NewTask(dag[id])]
  /\ dagRet = [op |-> "NewDAG"]
  /\ sessStatus = IF viaSession THEN "ready" ELSE "none"
  /\ maxParallel = IF viaSession THEN 0 ELSE NewExecutorMaxParallel(n)
  /\ pc = IF viaSession THEN "execute" ELSE "top"
  /\ batch = <<>>
  /\ sem = 0
  /\ wg = 0
  /\ body = [id \in DOMAIN dag |-> "idle"]
  /\ bodyErr = [id \in DOMAIN dag |-> ""]
  /\ eventCh = <<>>
  /\ evlog = [id \in DOMAIN dag |-> <<>>]
  /\ ctxDone = FALSE
  /\ runCancelled = FALSE
  /\ runRet = "none"
  /\ RpcIdle
  /\ AgentIdle

Init ==
  \/ \E dag \in OpenDAGs :
       \/ InitExec(dag, TRUE, SessionMaxParallel, EnvOpen)
       \/ \E n \in 0..MaxParallelArg : InitExec(dag, FALSE, n, EnvOpen)
  \/ \E dag \in ScenarioDAGs, n \in 1..MaxParallelArg :
       InitExec(dag, FALSE, n, EnvStill)
  \/ InitExec(DagCascade, TRUE, SessionMaxParallel, EnvStill)

\* Session.Execute up to the call of Executor.Run
SessionExecute ==
  /\ pc = "execute"
  /\ sessStatus' = "running"
  /\ maxParallel' = NewExecutorMaxParallel(SessionMaxParallel)
  /\ pc' = "top"
  /\ UNCHANGED <<outsideExec, env, dagVars, batch, sem, wg, body, bodyErr, eventCh, evlog, ctxDone,
                 runCancelled, runRet>>

\* Session.Execute after Executor.Run returned
SessionExecuteReturn ==
  /\ pc = "returned"
  /\ sessStatus = "running"
  /\ sessStatus' = IF runRet = "nil" THEN "merging" ELSE "failed"
  /\ UNCHANGED <<outsideExec, env, dagVars, maxParallel, pc, batch, sem, wg, body, bodyErr, eventCh,
                 evlog, ctxDone, runCancelled, runRet>>

\* the caller cancels the context it passed
CancelCtx ==
  /\ env.cancellable
  /\ pc \notin {"idle", "execute"}
  /\ ~ctxDone
  /\ ctxDone' = TRUE
  /\ UNCHANGED <<outsideExec, env, dagVars, sessStatus, maxParallel, pc, batch, sem, wg, body, bodyErr,
                 eventCh, evlog, runCancelled, runRet>>

\* "if e.dag.AllCompleted() { break }"
RunAllCompleted ==
  /\ pc = "top"
  /\ pc' = IF AllCompleted(tasks) THEN "wgwait" ELSE "hasFailed"
  /\ UNCHANGED <<outsideExec, env, dagVars, sessStatus, maxParallel, batch, sem, wg, body, bodyErr,
                 eventCh, evlog, ctxDone, runCancelled, runRet>>

\* "if e.dag.HasFailed() { cancel(); break }"
RunHasFailed ==
  /\ pc = "hasFailed"
  /\ IF HasFailed(tasks)
       THEN runCancelled' = TRUE /\ pc' = "wgwait"
       ELSE pc' = "ready" /\ UNCHANGED runCancelled
  /\ UNCHANGED <<outsideExec, env, dagVars, sessStatus, maxParallel, batch, sem, wg, body, bodyErr,
                 eventCh, evlog, ctxDone, runRet>>

\* "ready := e.dag.ReadyTasks()", in the order the map yields
RunReadyTasks ==
  /\ pc = "ready"
  /\ \E ord \in Orders(ReadyTasks(tasks)) :
       /\ batch' = ord
       /\ pc' = IF Len(ord) = 0 THEN "select" ELSE "mark"
  /\ UNCHANGED <<outsideExec, env, dagVars, sessStatus, maxParallel, sem, wg, body, bodyErr, eventCh,
                 evlog, ctxDone, runCancelled, runRet>>

\* "case <-runCtx.Done(): return runCtx.Err()", the deferred cancel() included
RunSelectDone ==
  /\ pc = "select"
  /\ RunCtxDone
  /\ runRet' = "ctx"
  /\ runCancelled' = TRUE
  /\ pc' = "returned"
  /\ UNCHANGED <<outsideExec, env, dagVars, sessStatus, maxParallel, batch, sem, wg, body, bodyErr,
                 eventCh, evlog, ctxDone>>

\* "case <-time.After(100 * time.Millisecond): continue"
RunSelectTick ==
  /\ pc = "select"
  /\ pc' = "top"
  /\ UNCHANGED <<outsideExec, env, dagVars, sessStatus, maxParallel, batch, sem, wg, body, bodyErr,
                 eventCh, evlog, ctxDone, runCancelled, runRet>>

\* "e.dag.UpdateStatus(task.ID, StatusRunning)" for the next task of the list
RunMarkRunning ==
  /\ pc = "mark"
  /\ tasks' = UpdateStatus(tasks, Head(batch), StatusRunning)
  /\ pc' = "acquire"
  /\ UNCHANGED <<outsideExec, env, dagRet, sessStatus, maxParallel, batch, sem, wg, body, bodyErr,
                 eventCh, evlog, ctxDone, runCancelled, runRet>>

\* a send on the buffered channel sem := make(chan struct{}, e.maxParallel)
\* goes through when the buffer has room
SemSendAlways(held, capacity) == TRUE

SemSend(held, capacity) == held < capacity

\* "sem <- struct{}{}; wg.Add(1); go func(t *Task) {...}(task)"
RunLaunch ==
  /\ pc = "acquire"
  /\ SemSend(sem, maxParallel)
  /\ sem' = sem + 1
  /\ wg' = wg + 1
  /\ body' = [body EXCEPT ![Head(batch)] = "started"]
  /\ batch' = Tail(batch)
  /\ pc' = IF Len(batch) = 1 THEN "top" ELSE "mark"
  /\ UNCHANGED <<outsideExec, env, dagVars, sessStatus, maxParallel, bodyErr, eventCh, evlog, ctxDone,
                 runCancelled, runRet>>

\* "wg.Wait()"
RunWgWait ==
  /\ pc = "wgwait"
  /\ wg = 0
  /\ pc' = "final"
  /\ UNCHANGED <<outsideExec, env, dagVars, sessStatus, maxParallel, batch, sem, wg, body, bodyErr,
                 eventCh, evlog, ctxDone, runCancelled, runRet>>

\* "if e.dag.HasFailed() { return error }; return nil", the deferred cancel() included
RunReturn ==
  /\ pc = "final"
  /\ runRet' = IF HasFailed(tasks) THEN "failed" ELSE "nil"
  /\ runCancelled' = TRUE
  /\ pc' = "returned"
  /\ UNCHANGED <<outsideExec, env, dagVars, sessStatus, maxParallel, batch, sem, wg, body, bodyErr,
                 eventCh, evlog, ctxDone>>

(***************************************************************************)
(* The goroutine of one task: executeTask and what follows it              *)
(***************************************************************************)
\* the mutant: an event sent on a full channel is dropped
SendOrDrop(t, typ) ==
  /\ eventCh' = IF Len(eventCh) < EventChCap
                  THEN Append(eventCh, [TaskID |-> t, EventType |-> typ])
                  ELSE eventCh
  /\ evlog' = [evlog EXCEPT ![t] = Append(@, typ)]

Send(t, typ) ==
  /\ Len(eventCh) < EventChCap
  /\ eventCh' = Append(eventCh, [TaskID |-> t, EventType |-> typ])
  /\ evlog' = [evlog EXCEPT ![t] = Append(@, typ)]

\* executeTask returns err
Fail(t, err) ==
  /\ bodyErr' = [bodyErr EXCEPT ![t] = err]
  /\ body' = [body EXCEPT ![t] = "result"]

\* a command run with exec.CommandContext(ctx, ...) cannot start once ctx is done
CommandOutcomes == IF RunCtxDone THEN {FALSE} ELSE BOOLEAN

\* "e.eventCh <- ExecutionEvent{TaskID: t.ID, EventType: "started"}"
BodyStarted(t) ==
  /\ body[t] = "started"
  /\ Send(t, "started")
  /\ body' = [body EXCEPT ![t] = "create"]
  /\ UNCHANGED <<outsideExec, env, dagVars, sessStatus, maxParallel, pc, batch, sem, wg, bodyErr,
                 ctxDone, runCancelled, runRet>>

\* steps 1-2: the branch name, then worktreeMgr.Create
BodyCreate(t) ==
  /\ body[t] = "create"
  /\ tasks' = [tasks EXCEPT ![t].BranchName = IF @ = "" THEN t ELSE @]
  /\ \E ok \in CommandOutcomes :
       IF ok THEN body' = [body EXCEPT ![t] = "merge"] /\ UNCHANGED bodyErr
             ELSE Fail(t, "create worktree")
  /\ UNCHANGED <<outsideExec, env, dagRet, sessStatus, maxParallel, pc, batch, sem, wg, eventCh, evlog,
                 ctxDone, runCancelled, runRet>>

\* DAG.GetDependencyBranches
GetDependencyBranches(g, t) ==
  IF t \notin DOMAIN g THEN {}
  ELSE {g[d].BranchName :
          d \in {x \in Range(g[t].DependsOn) : x \in DOMAIN g /\ g[x].BranchName # ""}}

\* step 3: merge every dependency branch; the first failure removes the worktree
BodyMerge(t) ==
  /\ body[t] = "merge"
  /\ \E ok \in (IF GetDependencyBranches(tasks, t) = {} THEN {TRUE} ELSE CommandOutcomes) :
       IF ok THEN body' = [body EXCEPT ![t] = "spawn"] /\ UNCHANGED bodyErr
             ELSE Fail(t, "merge dependency branch")
  /\ UNCHANGED <<outsideExec, env, dagVars, sessStatus, maxParallel, pc, batch, sem, wg, eventCh, evlog,
                 ctxDone, runCancelled, runRet>>

\* step 4: agentMgr.SpawnAgent
BodySpawn(t) ==
  /\ body[t] = "spawn"
  /\ \E ok \in CommandOutcomes :
       IF ok THEN body' = [body EXCEPT ![t] = "send"] /\ UNCHANGED bodyErr
             ELSE Fail(t, "spawn agent")
  /\ UNCHANGED <<outsideExec, env, dagVars, sessStatus, maxParallel, pc, batch, sem, wg, eventCh, evlog,
                 ctxDone, runCancelled, runRet>>

\* step 5: agentMgr.SendTask, a Client.Call that the agent answers or fails
BodySend(t) ==
  /\ body[t] = "send"
  /\ \E ok \in BOOLEAN :
       IF ok THEN body' = [body EXCEPT ![t] = "wait"] /\ UNCHANGED bodyErr
             ELSE Fail(t, "send task")
  /\ UNCHANGED <<outsideExec, env, dagVars, sessStatus, maxParallel, pc, batch, sem, wg, eventCh, evlog,
                 ctxDone, runCancelled, runRet>>

\* step 6: agentMgr.WaitForCompletion returns nil on turn/completed "completed"
BodyWaitCompleted(t) ==
  /\ body[t] = "wait"
  /\ body' = [body EXCEPT ![t] = "commit"]
  /\ UNCHANGED <<outsideExec, env, dagVars, sessStatus, maxParallel, pc, batch, sem, wg, bodyErr,
                 eventCh, evlog, ctxDone, runCancelled, runRet>>

\* step 6: WaitForCompletion returns the agent's failure
BodyWaitFailed(t) ==
  /\ body[t] = "wait"
  /\ Fail(t, "agent execution: agent task failed")
  /\ UNCHANGED <<outsideExec, env, dagVars, sessStatus, maxParallel, pc, batch, sem, wg, eventCh, evlog,
                 ctxDone, runCancelled, runRet>>

\* step 6: WaitForCompletion returns ctx.Err()
BodyWaitCancelled(t) ==
  /\ body[t] = "wait"
  /\ RunCtxDone
  /\ Fail(t, "agent execution: context canceled")
  /\ UNCHANGED <<outsideExec, env, dagVars, sessStatus, maxParallel, pc, batch, sem, wg, eventCh, evlog,
                 ctxDone, runCancelled, runRet>>

\* steps 7-8: CommitChanges, UpdateTaskResult for a non-empty revision, StopAgent
BodyCommit(t) ==
  /\ body[t] = "commit"
  /\ \E ok \in CommandOutcomes :
       IF ok
         THEN /\ \E sha \in env.revs :
                   tasks' = IF sha # "" THEN UpdateTaskResult(tasks, t, sha) ELSE tasks
              /\ body' = [body EXCEPT ![t] = "result"]
              /\ UNCHANGED bodyErr
         ELSE Fail(t, "commit changes") /\ UNCHANGED tasks
  /\ UNCHANGED <<outsideExec, env, dagRet, sessStatus, maxParallel, pc, batch, sem, wg, eventCh, evlog,
                 ctxDone, runCancelled, runRet>>

\* "e.dag.SetTaskFailed(t.ID, err.Error())" or "e.dag.SetTaskCompleted(t.ID)"
BodySetStatus(t) ==
  /\ body[t] = "result"
  /\ tasks' = IF bodyErr[t] # "" THEN SetTaskFailed(tasks, t) ELSE SetTaskCompleted(tasks, t)
  /\ body' = [body EXCEPT ![t] = "event"]
  /\ UNCHANGED <<outsideExec, env, dagRet, sessStatus, maxParallel, pc, batch, sem, wg, bodyErr, eventCh,
                 evlog, ctxDone, runCancelled, runRet>>

\* "e.eventCh <- ExecutionEvent{..., EventType: "failed" | "completed"}"
BodyEvent(t) ==
  /\ body[t] = "event"
  /\ Send(t, IF bodyErr[t] # "" THEN "failed" ELSE "completed")
  /\ body' = [body EXCEPT ![t] = "release"]
  /\ UNCHANGED <<outsideExec, env, dagVars, sessStatus, maxParallel, pc, batch, sem, wg, bodyErr,
                 ctxDone, runCancelled, runRet>>

\* "defer func() { <-sem }()"
BodyRelease(t) ==
  /\ body[t] = "release"
  /\ sem' = sem - 1
  /\ body' = [body EXCEPT ![t] = "wgdone"]
  /\ UNCHANGED <<outsideExec, env, dagVars, sessStatus, maxParallel, pc, batch, wg, bodyErr, eventCh,
                 evlog, ctxDone, runCancelled, runRet>>

\* "defer wg.Done()"
BodyWgDone(t) ==
  /\ body[t] = "wgdone"
  /\ wg' = wg - 1
  /\ body' = [body EXCEPT ![t] = "done"]
  /\ UNCHANGED <<outsideExec, env, dagVars, sessStatus, maxParallel, pc, batch, sem, bodyErr, eventCh,
                 evlog, ctxDone, runCancelled, runRet>>

\* a reader of Executor.Events() takes the oldest event
ReceiveEvent ==
  /\ env.reader
  /\ Len(eventCh) > 0
  /\ eventCh' = Tail(eventCh)
  /\ UNCHANGED <<outsideExec, env, dagVars, sessStatus, maxParallel, pc, batch, sem, wg, body, bodyErr,
                 evlog, ctxDone, runCancelled, runRet>>

Next ==
  \/ SessionExecute
  \/ SessionExecuteReturn
  \/ CancelCtx
  \/ RunAllCompleted
  \/ RunHasFailed
  \/ RunReadyTasks
  \/ RunSelectDone
  \/ RunSelectTick
  \/ RunMarkRunning
  \/ RunLaunch
  \/ RunWgWait
  \/ RunReturn
  \/ ReceiveEvent
  \/ \E t \in DOMAIN body : BodyStarted(t)
  \/ \E t \in DOMAIN body : BodyCreate(t)
  \/ \E t \in DOMAIN body : BodyMerge(t)
  \/ \E t \in DOMAIN body : BodySpawn(t)
  \/ \E t \in DOMAIN body : BodySend(t)
  \/ \E t \in DOMAIN body : BodyWaitCompleted(t)
  \/ \E t \in DOMAIN body : BodyWaitFailed(t)
  \/ \E t \in DOMAIN body : BodyWaitCancelled(t)
  \/ \E t \in DOMAIN body : BodyCommit(t)
  \/ \E t \in DOMAIN body : BodySetStatus(t)
  \/ \E t \in DOMAIN body : BodyEvent(t)
  \/ \E t \in DOMAIN body : BodyRelease(t)
  \/ \E t \in DOMAIN body : BodyWgDone(t)

Spec == Init /\ [][Next]_vars

(***************************************************************************)
(* SpecLive: Executor.Run on acyclic DAGs whose dependencies resolve, the   *)
(* caller never cancelling, Events() read, every step that can be taken    *)
(* eventually taken                                                        *)
(***************************************************************************)
LiveDAGs == {DagLinear, DagIndependent}
LiveTaskIDs == UNION {DOMAIN dag : dag \in LiveDAGs}

EnvLive == [reader |-> TRUE, cancellable |-> FALSE, revs |-> {"sha"}]

InitLive == \E dag \in LiveDAGs, n \in 1..MaxParallelArg : InitExec(dag, FALSE, n, EnvLive)

\* a step of the main loop of Run
RunStep ==
  \/ RunAllCompleted
  \/ RunHasFailed
  \/ RunReadyTasks
  \/ RunSelectTick
  \/ RunMarkRunning
  \/ RunLaunch
  \/ RunWgWait
  \/ RunReturn

\* a step of the goroutine of task t
BodyStep(t) ==
  /\ t \in DOMAIN body
  /\ \/ BodyStarted(t)
     \/ BodyCreate(t)
     \/ BodyMerge(t)
     \/ BodySpawn(t)
     \/ BodySend(t)
     \/ BodyWaitCompleted(t)
     \/ BodyWaitFailed(t)
     \/ BodyWaitCancelled(t)
     \/ BodyCommit(t)
     \/ BodySetStatus(t)
     \/ BodyEvent(t)
     \/ BodyRelease(t)
     \/ BodyWgDone(t)

NextLive ==
  \/ RunStep
  \/ \E t \in LiveTaskIDs : BodyStep(t)
  \/ ReceiveEvent

\* the Go scheduler runs every goroutine that can run
SpecLive ==
  /\ InitLive
  /\ [][NextLive]_vars
  /\ WF_vars(RunStep)
  /\ \A t \in LiveTaskIDs : WF_vars(BodyStep(t))
  /\ WF_vars(ReceiveEvent)

(***************************************************************************)
(* SpecEvents: Executor.Run late in a long run, its event channel nearly   *)
(* full of the events of the tasks that completed, one task left to run    *)
(***************************************************************************)
\* the tasks that completed earlier in the run
EarlierTasks == 128

\* the events of the earlier tasks, in the order they were sent
EarlierEvents ==
  [k \in 1..(2 * EarlierTasks) |->
     [TaskID |-> ToString((k + 1) \div 2),
      EventType |-> IF k % 2 = 1 THEN "started" ELSE "completed"]]

\* the newest of them that leave room for one more; the reader took the rest
BufferedEvents ==
  LET n == 2 * EarlierTasks
      keep == IF n <= EventChCap - 1 THEN n ELSE EventChCap - 1
  IN SubSeq(EarlierEvents, n - keep + 1, n)

\* the task left to run
DagLast == [a |-> <<>>]

\* the DAG is cut down to the task left: a completed task changes no
\* answer of AllCompleted, HasFailed or ReadyTasks
InitEvents ==
  /\ env = EnvLive
  /\ tasks = [id \in DOMAIN DagLast |-> NewTask(DagLast[id])]
  /\ dagRet = [op |-> "NewDAG"]
  /\ sessStatus = "none"
  /\ maxParallel = NewExecutorMaxParallel(SessionMaxParallel)
  /\ pc = "top"
  /\ batch = <<>>
  /\ sem = 0
  /\ wg = 0
  /\ body = [id \in DOMAIN DagLast |-> "idle"]
  /\ bodyErr = [id \in DOMAIN DagLast |-> ""]
  /\ eventCh = BufferedEvents
  /\ evlog = [id \in DOMAIN DagLast |-> <<>>]
  /\ ctxDone = FALSE
  /\ runCancelled = FALSE
  /\ runRet = "none"
  /\ RpcIdle
  /\ AgentIdle

SpecEvents == InitEvents /\ [][NextLive]_vars

(***************************************************************************)
(* SpecCancel: Executor.Run with tasks running side by side, the caller    *)
(* never cancelling, Events() read; an agent's turn may never end, every   *)
(* other step that can be taken is eventually taken                        *)
(***************************************************************************)
CancelDAGs == {DagIndependent}
CancelTaskIDs == UNION {DOMAIN dag : dag \in CancelDAGs}

InitCancel == \E dag \in CancelDAGs : InitExec(dag, FALSE, MaxParallelArg, EnvLive)

\* a step of the goroutine of task t that does not wait for the agent
BodyOwnStep(t) ==
  /\ t \in DOMAIN body
  /\ \/ BodyStarted(t)
     \/ BodyCreate(t)
     \/ BodyMerge(t)
     \/ BodySpawn(t)
     \/ BodySend(t)
     \/ BodyWaitCancelled(t)
     \/ BodyCommit(t)
     \/ BodySetStatus(t)
     \/ BodyEvent(t)
     \/ BodyRelease(t)
     \/ BodyWgDone(t)

\* the agent of task t ends its turn
AgentTurnEnds(t) ==
  /\ t \in DOMAIN body
  /\ \/ BodyWaitCompleted(t)
     \/ BodyWaitFailed(t)

NextCancel ==
  \/ RunStep
  \/ \E t \in CancelTaskIDs : BodyOwnStep(t)
  \/ \E t \in CancelTaskIDs : AgentTurnEnds(t)
  \/ ReceiveEvent

SpecCancel ==
  /\ InitCancel
  /\ [][NextCancel]_vars
  /\ WF_vars(RunStep)
  /\ \A t \in CancelTaskIDs : WF_vars(BodyOwnStep(t))
  /\ WF_vars(ReceiveEvent)

(***************************************************************************)
(* codexrpc.Client: Call against readLoop                                  *)
(***************************************************************************)
\* number of goroutines that call Client.Call, once each
NumCallers == 3

Callers == 1..NumCallers

\* the mutant: the ID is read as Load() + 1 and the counter is not advanced
nextIDAddNotStored(n) == [stored |-> n, returned |-> n + 1]

\* nextID.Add(1): the counter is stored and the new value returned, atomically
nextIDAdd(n) == [stored |-> n + 1, returned |-> n + 1]

IdleCall == [pc |-> "idle", id |-> 0, ch |-> <<>>, ctxDone |-> FALSE, ret |-> "none"]

InitRPC ==
  /\ tasks = <<>>
  /\ dagRet = [op |-> "NewDAG"]
  /\ ExecIdle
  /\ nextID = 0
  /\ pendingCalls = <<>>
  /\ call = [c \in Callers |-> IdleCall]
  /\ loop = "reading"
  /\ done = FALSE
  /\ AgentIdle

\* the Go map operations on pendingCalls
MapPut(m, k, v) == [x \in DOMAIN m \cup {k} |-> IF x = k THEN v ELSE m[x]]
\* the mutant: the delete is lost
MapDeleteNothing(m, k) == m

MapDelete(m, k) == [x \in DOMAIN m \ {k} |-> m[x]]

\* the mutant: the send always takes the default branch
TrySendDropped(buf, r) == buf

\* "select { case ch <- r: default: }" on a channel of capacity 1
TrySend(buf, r) == IF Len(buf) < 1 THEN Append(buf, r) ELSE buf

\* "id := c.nextID.Add(1)"
CallNextID(c) ==
  /\ call[c].pc = "idle"
  /\ LET r == nextIDAdd(nextID)
     IN /\ nextID' = r.stored
        /\ call' = [call EXCEPT ![c].pc = "marshal", ![c].id = r.returned]
  /\ UNCHANGED <<outsideRPC, pendingCalls, loop, done>>

\* "json.Marshal(params)" fails: Call returns before it registers anything
CallMarshalError(c) ==
  /\ call[c].pc = "marshal"
  /\ call' = [call EXCEPT ![c].pc = "returned", ![c].ret = "marshal error"]
  /\ UNCHANGED <<outsideRPC, nextID, pendingCalls, loop, done>>

\* "ch := make(chan *rpcResult, 1); c.pendingCalls[idStr] = ch"
CallRegister(c) ==
  /\ call[c].pc = "marshal"
  /\ pendingCalls' = MapPut(pendingCalls, call[c].id, c)
  /\ call' = [call EXCEPT ![c].pc = "write"]
  /\ UNCHANGED <<outsideRPC, nextID, loop, done>>

\* "c.writeMessage(req)" succeeds
CallWrite(c) ==
  /\ call[c].pc = "write"
  /\ call' = [call EXCEPT ![c].pc = "select"]
  /\ UNCHANGED <<outsideRPC, nextID, pendingCalls, loop, done>>

\* "c.writeMessage(req)" fails: the slot is deleted, Call returns the write error
CallWriteError(c) ==
  /\ call[c].pc = "write"
  /\ pendingCalls' = MapDelete(pendingCalls, call[c].id)
  /\ call' = [call EXCEPT ![c].pc = "returned", ![c].ret = "write error"]
  /\ UNCHANGED <<outsideRPC, nextID, loop, done>>

\* the caller's context is cancelled
CallCtxCancel(c) ==
  /\ call[c].pc # "returned"
  /\ ~call[c].ctxDone
  /\ call' = [call EXCEPT ![c].ctxDone = TRUE]
  /\ UNCHANGED <<outsideRPC, nextID, pendingCalls, loop, done>>

\* "case <-ctx.Done()": the slot is deleted, Call returns ctx.Err()
CallSelectCtx(c) ==
  /\ call[c].pc = "select"
  /\ call[c].ctxDone
  /\ pendingCalls' = MapDelete(pendingCalls, call[c].id)
  /\ call' = [call EXCEPT ![c].pc = "returned", ![c].ret = "ctx error"]
  /\ UNCHANGED <<outsideRPC, nextID, loop, done>>

\* "case result := <-ch": the result, or the RPC error, is returned
CallSelectResult(c) ==
  /\ call[c].pc = "select"
  /\ Len(call[c].ch) > 0
  /\ call' = [call EXCEPT ![c].pc = "returned", ![c].ret = Head(call[c].ch),
                          ![c].ch = Tail(call[c].ch)]
  /\ UNCHANGED <<outsideRPC, nextID, pendingCalls, loop, done>>

\* "case <-c.done": Call returns "client closed"
CallSelectDone(c) ==
  /\ call[c].pc = "select"
  /\ done
  /\ call' = [call EXCEPT ![c].pc = "returned", ![c].ret = "client closed"]
  /\ UNCHANGED <<outsideRPC, nextID, pendingCalls, loop, done>>

\* Client.resolveCall: the slot is deleted, the result sent without blocking
resolveCall(id, result) ==
  IF id \in DOMAIN pendingCalls
    THEN /\ pendingCalls' = MapDelete(pendingCalls, id)
         /\ call' = [call EXCEPT ![pendingCalls[id]].ch = TrySend(@, result)]
    ELSE UNCHANGED <<pendingCalls, call>>

\* readLoop reads a response line, with whatever ID the agent put on it, and
\* dispatch resolves the call
ReadResponse(id, result) ==
  /\ loop = "reading"
  /\ resolveCall(id, result)
  /\ UNCHANGED <<outsideRPC, nextID, loop, done>>

\* readLoop hits EOF or a read error: every pending call gets "client closed"
ReadError ==
  /\ loop = "reading"
  /\ call' = [c \in DOMAIN call |->
                IF \E id \in DOMAIN pendingCalls : pendingCalls[id] = c
                  THEN [call[c] EXCEPT !.ch = TrySend(@, "rpc error: client closed")]
                  ELSE call[c]]
  /\ pendingCalls' = <<>>
  /\ loop' = "closing"
  /\ UNCHANGED <<outsideRPC, nextID, done>>

\* "defer close(c.done)"
ReadLoopExit ==
  /\ loop = "closing"
  /\ done' = TRUE
  /\ loop' = "exited"
  /\ UNCHANGED <<outsideRPC, nextID, pendingCalls, call>>

NextRPC ==
  \/ \E c \in Callers : CallNextID(c)
  \/ \E c \in Callers : CallMarshalError(c)
  \/ \E c \in Callers : CallRegister(c)
  \/ \E c \in Callers : CallWrite(c)
  \/ \E c \in Callers : CallWriteError(c)
  \/ \E c \in Callers : CallCtxCancel(c)
  \/ \E c \in Callers : CallSelectCtx(c)
  \/ \E c \in Callers : CallSelectResult(c)
  \/ \E c \in Callers : CallSelectDone(c)
  \/ \E id \in 1..NumCallers, result \in {"result", "rpc error"} : ReadResponse(id, result)
  \/ ReadError
  \/ ReadLoopExit

SpecRPC == InitRPC /\ [][NextRPC]_vars

(***************************************************************************)
(* agent.Manager: SpawnAgent, SendTask, StopAgent, WaitForCompletion, and  *)
(* the two handlers it installs on the client of each subprocess            *)
(***************************************************************************)
\* agent IDs the callers use
AgentIDs == {"w1", "w2"}
\* most subprocesses started in one behaviour
MaxProcs == 2
\* most notifications the subprocesses send in one behaviour
MaxNotifs == 2
\* most server requests the subprocesses send in one behaviour
MaxRequests == 1
\* most calls of SpawnAgent, SendTask and StopAgent in one behaviour
MaxCalls == 3
\* number of goroutines that call WaitForCompletion, once each
NumWaiters == 1

Waiters == 1..NumWaiters

\* make(chan AgentEvent, 100)
MgrEventChCap == 100

\* agent.AgentState
StateIdle == "idle"
StateRunning == "running"
StateCompleted == "completed"
StateFailed == "failed"

\* codexrpc approval decisions
DecisionAccept == "accept"
DecisionDecline == "decline"

\* the error codes handleServerRequest sends
CodeNoHandler == -32601
CodeHandlerError == -1

\* what the subprocesses send
ApprovalMethods == {"command/approval", "fileChange/approval"}
RequestMethods == ApprovalMethods \cup {"tool/requestUserInput"}
RequestIDs == {7, 8}
NotifyMethods == {"turn/started", "turn/completed", "item/completed"}
\* turn.status of a turn/completed notification; "unparsed" when its
\* parameters do not unmarshal
TurnStatuses == {"completed", "failed", "interrupted", "unparsed"}

IdleWait == [pc |-> "idle", proc |-> 0, ctxDone |-> FALSE, ret |-> "none"]

InitAgent ==
  /\ tasks = <<>>
  /\ dagRet = [op |-> "NewDAG"]
  /\ ExecIdle
  /\ RpcIdle
  /\ NewManager
  /\ waiters = [w \in Waiters |-> IdleWait]
  /\ SessionIdle

\* m.mu is free: no SpawnAgent or StopAgent is between its Lock and Unlock
MuFree == mgrOp.kind = "none"

\* the mutant: Close leaves the pipe open
ProcessCloseLeavesOpen(pr) == pr

\* Process.Close: stdin is closed, then the process is waited for
ProcessClose(pr) == [pr EXCEPT !.stdin = "closed"]

\* the mutant: the handler declines
createApprovalHandlerDeclines(method) ==
  IF method \in ApprovalMethods
    THEN [err |-> "", decision |-> DecisionDecline]
    ELSE [err |-> "unknown request method", decision |-> ""]

\* the handler createApprovalHandler returns, applied to a method
createApprovalHandler(method) ==
  CASE method = "command/approval" -> [err |-> "", decision |-> DecisionAccept]
    [] method = "fileChange/approval" -> [err |-> "", decision |-> DecisionAccept]
    [] OTHER -> [err |-> "unknown request method", decision |-> ""]

\* the mutant: every turn/completed that parses signals completion
turnCompletedAnyStatus(status) ==
  CASE status = "unparsed" -> [set |-> FALSE, State |-> "", signal |-> <<>>]
    [] status = "failed" ->
         [set |-> TRUE, State |-> StateFailed, signal |-> <<"agent task failed">>]
    [] OTHER -> [set |-> TRUE, State |-> StateCompleted, signal |-> <<"nil">>]

\* the turn/completed case of the notification handler: the new State, if
\* any, and the value offered to doneCh, if any
turnCompleted(status) ==
  CASE status = "failed" ->
         [set |-> TRUE, State |-> StateFailed, signal |-> <<"agent task failed">>]
    [] status = "completed" ->
         [set |-> TRUE, State |-> StateCompleted, signal |-> <<"nil">>]
    [] OTHER -> [set |-> FALSE, State |-> "", signal |-> <<>>]

\* the line handleServerRequest hands to writeResponse for a request of
\* subprocess p, hasHandler telling whether c.requestHandler is set
handleServerRequest(p, id, method, hasHandler) ==
  IF ~hasHandler
    THEN [proc |-> p, id |-> id, kind |-> "error", code |-> CodeNoHandler,
          message |-> "no handler registered", decision |-> ""]
    ELSE LET r == createApprovalHandler(method)
         IN IF r.err # ""
              THEN [proc |-> p, id |-> id, kind |-> "error",
                    code |-> CodeHandlerError, message |-> r.err, decision |-> ""]
              ELSE [proc |-> p, id |-> id, kind |-> "result", code |-> 0,
                    message |-> "", decision |-> r.decision]

\* a Manager call returns
Returned(op, id, err) ==
  mgrRet' = [n |-> mgrRet.n + 1, op |-> op, id |-> id, err |-> err]

\* a Manager call may start: m.mu is free and the callers have calls left
MayCall == MuFree /\ mgrRet.n < MaxCalls

\* SpawnAgent up to codexrpc.Spawn: the lock, the duplicate check, the start
\* of the subprocess and of its read loop
SpawnBegin(id) ==
  /\ MayCall
  /\ \/ /\ id \in DOMAIN agents
        /\ Returned("SpawnAgent", id, "already exists")
        /\ UNCHANGED <<procs, mgrOp>>
     \/ /\ id \notin DOMAIN agents
        /\ Returned("SpawnAgent", id, "spawn process")
        /\ UNCHANGED <<procs, mgrOp>>
     \/ /\ id \notin DOMAIN agents
        /\ Len(procs) < MaxProcs
        /\ procs' = Append(procs, [agentID |-> id, stdin |-> "open",
                                   loop |-> "reading", fwd |-> NoNotif,
                                   handlers |-> FALSE, State |-> "",
                                   doneCh |-> <<>>])
        /\ mgrOp' = [kind |-> "spawn", id |-> id, proc |-> Len(procs) + 1,
                     pc |-> "handshake"]
        /\ UNCHANGED mgrRet
  /\ UNCHANGED <<outsideAgent, agents, mgrEventCh, srvReqs, outbox, waiters,
                 notified>>

\* Initialize or ThreadStart returns an error: Close, unlock, return
SpawnHandshakeFail(err) ==
  /\ mgrOp.kind = "spawn"
  /\ mgrOp.pc = "handshake"
  /\ procs' = [procs EXCEPT ![mgrOp.proc] = ProcessClose(@)]
  /\ mgrOp' = NoOp
  /\ Returned("SpawnAgent", mgrOp.id, err)
  /\ UNCHANGED <<outsideAgent, agents, mgrEventCh, srvReqs, outbox, waiters,
                 notified>>

\* both calls were answered: the handlers are set, the Instance is made and
\* put in the registry
SpawnRegister ==
  /\ mgrOp.kind = "spawn"
  /\ mgrOp.pc = "handshake"
  /\ procs[mgrOp.proc].loop # "exited"
  /\ procs' = [procs EXCEPT ![mgrOp.proc].handlers = TRUE,
                            ![mgrOp.proc].State = StateIdle]
  /\ agents' = MapPut(agents, mgrOp.id, mgrOp.proc)
  /\ mgrOp' = [mgrOp EXCEPT !.pc = "emit"]
  /\ UNCHANGED <<outsideAgent, mgrEventCh, mgrRet, srvReqs, outbox, waiters,
                 notified>>

\* m.eventCh <- spawned, with the lock held; then return
SpawnEmit ==
  /\ mgrOp.kind = "spawn"
  /\ mgrOp.pc = "emit"
  /\ Len(mgrEventCh) < MgrEventChCap
  /\ mgrEventCh' = Append(mgrEventCh, [AgentID |-> mgrOp.id, EventType |-> "spawned"])
  /\ mgrOp' = NoOp
  /\ Returned("SpawnAgent", mgrOp.id, "")
  /\ UNCHANGED <<outsideAgent, agents, procs, srvReqs, outbox, waiters, notified>>

\* SendTask: lookup under the lock, State running, TurnStart and its outcome
SendTask(id) ==
  /\ MayCall
  /\ \/ /\ id \notin DOMAIN agents
        /\ Returned("SendTask", id, "not found")
        /\ UNCHANGED procs
     \/ /\ id \in DOMAIN agents
        /\ procs[agents[id]].loop # "exited"
        /\ procs[agents[id]].stdin = "open"
        /\ procs' = [procs EXCEPT ![agents[id]].State = StateRunning]
        /\ Returned("SendTask", id, "")
     \/ /\ id \in DOMAIN agents
        /\ procs' = [procs EXCEPT ![agents[id]].State = StateFailed]
        /\ Returned("SendTask", id, "turn start")
  /\ UNCHANGED <<outsideAgent, agents, mgrEventCh, mgrOp, srvReqs, outbox,
                 waiters, notified>>

\* StopAgent up to the delete: the lock, the lookup, Process.Close
StopBegin(id) ==
  /\ MayCall
  /\ \/ /\ id \notin DOMAIN agents
        /\ Returned("StopAgent", id, "not found")
        /\ UNCHANGED <<agents, procs, mgrOp>>
     \/ /\ id \in DOMAIN agents
        /\ procs' = [procs EXCEPT ![agents[id]] = ProcessClose(@)]
        /\ Returned("StopAgent", id, "close process")
        /\ UNCHANGED <<agents, mgrOp>>
     \/ /\ id \in DOMAIN agents
        /\ procs' = [procs EXCEPT ![agents[id]] = ProcessClose(@)]
        /\ agents' = MapDelete(agents, id)
        /\ mgrOp' = [kind |-> "stop", id |-> id, proc |-> agents[id], pc |-> "emit"]
        /\ UNCHANGED mgrRet
  /\ UNCHANGED <<outsideAgent, mgrEventCh, srvReqs, outbox, waiters, notified>>

\* m.eventCh <- stopped, with the lock held; then return
StopEmit ==
  /\ mgrOp.kind = "stop"
  /\ mgrOp.pc = "emit"
  /\ Len(mgrEventCh) < MgrEventChCap
  /\ mgrEventCh' = Append(mgrEventCh, [AgentID |-> mgrOp.id, EventType |-> "stopped"])
  /\ mgrOp' = NoOp
  /\ Returned("StopAgent", mgrOp.id, "")
  /\ UNCHANGED <<outsideAgent, agents, procs, srvReqs, outbox, waiters, notified>>

\* the read loop of subprocess p dispatches a notification: nothing without
\* a handler; with it the lookup under RLock, the State and doneCh of the
\* Instance registered under the handler's agent ID, and then the forward
ReadNotification(p, method, status) ==
  /\ p \in 1..Len(procs)
  /\ procs[p].loop = "reading"
  /\ notified < MaxNotifs
  /\ (method = "turn/completed") <=> (status # "")
  /\ notified' = notified + 1
  /\ IF ~procs[p].handlers
       THEN UNCHANGED procs
       ELSE /\ MuFree
            /\ IF procs[p].agentID \notin DOMAIN agents
                 THEN UNCHANGED procs
                 ELSE LET q == agents[procs[p].agentID]
                          r == turnCompleted(status)
                      IN procs' =
                           [procs EXCEPT
                              ![q].State =
                                 CASE method = "turn/started" -> StateRunning
                                   [] method = "turn/completed" /\ r.set -> r.State
                                   [] OTHER -> @,
                              ![q].doneCh =
                                 IF method = "turn/completed" /\ r.signal # <<>>
                                   THEN TrySend(@, r.signal[1])
                                   ELSE @,
                              ![p].loop = "forwarding",
                              ![p].fwd = [method |-> method, status |-> status]]
  /\ UNCHANGED <<outsideAgent, agents, mgrEventCh, mgrOp, mgrRet, srvReqs,
                 outbox, waiters>>

\* m.eventCh <- the notification, in the read loop's goroutine
NotifyForward(p) ==
  /\ p \in 1..Len(procs)
  /\ procs[p].loop = "forwarding"
  /\ Len(mgrEventCh) < MgrEventChCap
  /\ mgrEventCh' = Append(mgrEventCh, [AgentID |-> procs[p].agentID,
                                       EventType |-> procs[p].fwd.method])
  /\ procs' = [procs EXCEPT ![p].loop = "reading", ![p].fwd = NoNotif]
  /\ UNCHANGED <<outsideAgent, agents, mgrOp, mgrRet, srvReqs, outbox, waiters,
                 notified>>

\* the read loop of subprocess p dispatches a server request: a goroutine is
\* started for it; spawned records whether the handlers were installed by then
ReadServerRequest(p, id, method) ==
  /\ p \in 1..Len(procs)
  /\ procs[p].loop = "reading"
  /\ Len(srvReqs) < MaxRequests
  /\ srvReqs' = Append(srvReqs, [proc |-> p, id |-> id, method |-> method,
                                 pc |-> "go", spawned |-> procs[p].handlers,
                                 wrote |-> FALSE])
  /\ UNCHANGED <<outsideAgent, agents, procs, mgrEventCh, mgrOp, mgrRet, outbox,
                 waiters, notified>>

\* the goroutine of request n: handleServerRequest and writeResponse, whose
\* write error is dropped
HandleServerRequest(n) ==
  /\ n \in 1..Len(srvReqs)
  /\ srvReqs[n].pc = "go"
  /\ LET req == srvReqs[n]
         line == handleServerRequest(req.proc, req.id, req.method,
                                     procs[req.proc].handlers)
         ok == procs[req.proc].stdin = "open"
     IN /\ outbox' = IF ok THEN Append(outbox, line) ELSE outbox
        /\ srvReqs' = [srvReqs EXCEPT ![n].pc = "done", ![n].wrote = ok]
  /\ UNCHANGED <<outsideAgent, agents, procs, mgrEventCh, mgrOp, mgrRet, waiters,
                 notified>>

\* the read loop of subprocess p meets EOF or a read error
ReadEOF(p) ==
  /\ p \in 1..Len(procs)
  /\ procs[p].loop = "reading"
  /\ procs' = [procs EXCEPT ![p].loop = "exited"]
  /\ UNCHANGED <<outsideAgent, agents, mgrEventCh, mgrOp, mgrRet, srvReqs, outbox,
                 waiters, notified>>

\* WaitForCompletion up to its select: the lookup under RLock
WaitBegin(w, id) ==
  /\ waiters[w].pc = "idle"
  /\ MuFree
  /\ waiters' = [waiters EXCEPT ![w] =
                   IF id \in DOMAIN agents
                     THEN [@ EXCEPT !.pc = "select", !.proc = agents[id]]
                     ELSE [@ EXCEPT !.pc = "returned", !.ret = "not found"]]
  /\ UNCHANGED <<outsideAgent, agents, procs, mgrEventCh, mgrOp, mgrRet, srvReqs,
                 outbox, notified>>

\* the caller cancels the context it passed
WaitCtxCancel(w) ==
  /\ waiters[w].pc \in {"idle", "select"}
  /\ ~waiters[w].ctxDone
  /\ waiters' = [waiters EXCEPT ![w].ctxDone = TRUE]
  /\ UNCHANGED <<outsideAgent, agents, procs, mgrEventCh, mgrOp, mgrRet, srvReqs,
                 outbox, notified>>

\* case err := <-instance.doneCh
WaitSelectDone(w) ==
  /\ waiters[w].pc = "select"
  /\ procs[waiters[w].proc].doneCh # <<>>
  /\ waiters' = [waiters EXCEPT ![w].pc = "returned",
                                ![w].ret = Head(procs[waiters[w].proc].doneCh)]
  /\ procs' = [procs EXCEPT ![waiters[w].proc].doneCh = Tail(@)]
  /\ UNCHANGED <<outsideAgent, agents, mgrEventCh, mgrOp, mgrRet, srvReqs, outbox,
                 notified>>

\* case <-ctx.Done()
WaitSelectCtx(w) ==
  /\ waiters[w].pc = "select"
  /\ waiters[w].ctxDone
  /\ waiters' = [waiters EXCEPT ![w].pc = "returned", ![w].ret = "ctx error"]
  /\ UNCHANGED <<outsideAgent, agents, procs, mgrEventCh, mgrOp, mgrRet, srvReqs,
                 outbox, notified>>

\* the Manager calls on two agent IDs, the notifications and the waiters
NextAgent ==
  \/ \E id \in AgentIDs : SpawnBegin(id)
  \/ \E err \in {"initialize", "thread start"} : SpawnHandshakeFail(err)
  \/ SpawnRegister
  \/ SpawnEmit
  \/ \E id \in AgentIDs : SendTask(id)
  \/ \E id \in AgentIDs : StopBegin(id)
  \/ StopEmit
  \/ \E p \in 1..MaxProcs, method \in NotifyMethods, status \in TurnStatuses \cup {""} :
       ReadNotification(p, method, status)
  \/ \E p \in 1..MaxProcs : NotifyForward(p)
  \/ \E p \in 1..MaxProcs : ReadEOF(p)
  \/ \E w \in Waiters, id \in AgentIDs : WaitBegin(w, id)
  \/ \E w \in Waiters : WaitCtxCancel(w)
  \/ \E w \in Waiters : WaitSelectDone(w)
  \/ \E w \in Waiters : WaitSelectCtx(w)

SpecAgent == InitAgent /\ [][NextAgent]_vars

(***************************************************************************)
(* SpecUnread: the Manager after many agents came and went, Events() never *)
(* read, its event channel two short of full                               *)
(***************************************************************************)
\* the agents that were spawned and stopped before
EarlierAgents == 49

\* their events, in the order SpawnAgent and StopAgent sent them
EarlierAgentEvents ==
  [k \in 1..(2 * EarlierAgents) |->
     [AgentID |-> "e" \o ToString((k + 1) \div 2),
      EventType |-> IF k % 2 = 1 THEN "spawned" ELSE "stopped"]]

\* the registry is empty again; the subprocesses that ended are left out
InitUnread ==
  /\ tasks = <<>>
  /\ dagRet = [op |-> "NewDAG"]
  /\ ExecIdle
  /\ RpcIdle
  /\ agents = <<>>
  /\ procs = <<>>
  /\ mgrEventCh = EarlierAgentEvents
  /\ mgrOp = NoOp
  /\ mgrRet = [n |-> 0, op |-> "StopAgent", id |-> "e" \o ToString(EarlierAgents), err |-> ""]
  /\ srvReqs = <<>>
  /\ outbox = <<>>
  /\ notified = 0
  /\ waiters = [w \in Waiters |-> IdleWait]
  /\ SessionIdle

SpecUnread == InitUnread /\ [][NextAgent]_vars

\* one agent ID, spawned, stopped and spawned again, its subprocesses sending
\* server requests and turn/completed
ApprovalAgent == "w1"

NextApproval ==
  \/ SpawnBegin(ApprovalAgent)
  \/ \E err \in {"initialize", "thread start"} : SpawnHandshakeFail(err)
  \/ SpawnRegister
  \/ SpawnEmit
  \/ StopBegin(ApprovalAgent)
  \/ StopEmit
  \/ \E p \in 1..MaxProcs, status \in {"completed", "failed"} :
       ReadNotification(p, "turn/completed", status)
  \/ \E p \in 1..MaxProcs : NotifyForward(p)
  \/ \E p \in 1..MaxProcs, id \in RequestIDs, method \in RequestMethods :
       ReadServerRequest(p, id, method)
  \/ \E n \in 1..MaxRequests : HandleServerRequest(n)
  \/ \E p \in 1..MaxProcs : ReadEOF(p)
  \/ \E w \in Waiters : WaitBegin(w, ApprovalAgent)
  \/ \E w \in Waiters : WaitCtxCancel(w)
  \/ \E w \in Waiters : WaitSelectDone(w)
  \/ \E w \in Waiters : WaitSelectCtx(w)

SpecApproval == InitAgent /\ [][NextApproval]_vars

(***************************************************************************)
(* session.Session: Decompose, Execute and Merge called one after another  *)
(***************************************************************************)
\* most calls on the session in one behaviour
MaxSessCalls == 4
\* most tasks in one decomposition
MaxSuggestions == 2

\* session.SessionStatus
SessionStatus ==
  {"created", "decomposing", "ready", "running", "merging", "completed", "failed"}

\* the suggestions an orchestrator's output may hold, and the decompositions
SuggestedTasks ==
  {[ID |-> "a", DependsOn |-> <<>>], [ID |-> "b", DependsOn |-> <<"a">>]}
Decompositions == SeqsUpTo(SuggestedTasks, MaxSuggestions)

NoSessCall == [op |-> "none", pc |-> "", decomp |-> <<>>, i |-> 0]

\* Manager.Create: a session in status created with an empty DAG
InitSession ==
  /\ tasks = <<>>
  /\ dagRet = [op |-> "NewDAG"]
  /\ sessStatus = "created"
  /\ maxParallel = 0
  /\ pc = "idle"
  /\ batch = <<>>
  /\ sem = 0
  /\ wg = 0
  /\ body = <<>>
  /\ bodyErr = <<>>
  /\ eventCh = <<>>
  /\ evlog = <<>>
  /\ ctxDone = FALSE
  /\ runCancelled = FALSE
  /\ runRet = "none"
  /\ env = [reader |-> FALSE, cancellable |-> FALSE, revs |-> {}]
  /\ RpcIdle
  /\ NewManager
  /\ waiters = <<>>
  /\ sessCall = NoSessCall
  /\ sessRet = [n |-> 0, op |-> "Create", err |-> ""]
  /\ MergeIdle
  /\ TaskIdle
  /\ HubIdle

\* what the session's calls leave alone
outsideSession ==
  <<dagRet, maxParallel, pc, batch, sem, wg, body, bodyErr, eventCh, evlog,
    ctxDone, runCancelled, runRet, env, rpcVars, agentVars, mergeVars, taskVars, hubVars>>

\* a call on the session returns
SessReturned(op, err) ==
  /\ sessRet' = [n |-> sessRet.n + 1, op |-> op, err |-> err]
  /\ sessCall' = NoSessCall

\* a call on the session may start
SessMayCall == sessCall.op = "none" /\ sessRet.n < MaxSessCalls

\* the IDs the running Decompose has added to the DAG so far
AddedByCall ==
  {sessCall.decomp[k].ID : k \in 1..(sessCall.i - 1)}

\* Decompose up to the orchestrator call: Status decomposing
SessDecomposeBegin ==
  /\ SessMayCall
  /\ sessStatus' = "decomposing"
  /\ sessCall' = [op |-> "Decompose", pc |-> "orchestrate", decomp |-> <<>>, i |-> 1]
  /\ UNCHANGED <<outsideSession, tasks, sessRet>>

\* Orchestrator.Decompose returns an error: Status failed
SessDecomposeError ==
  /\ sessCall.op = "Decompose"
  /\ sessCall.pc = "orchestrate"
  /\ sessStatus' = "failed"
  /\ SessReturned("Decompose", "decompose")
  /\ UNCHANGED <<outsideSession, tasks>>

\* Orchestrator.Decompose returns a decomposition
SessDecomposeParsed ==
  /\ sessCall.op = "Decompose"
  /\ sessCall.pc = "orchestrate"
  /\ \E d \in Decompositions :
       sessCall' = [sessCall EXCEPT !.pc = "add", !.decomp = d]
  /\ UNCHANGED <<outsideSession, tasks, sessStatus, sessRet>>

\* one turn of the loop over decomp.Tasks: AddTask, and the return on its error
SessDecomposeAddTask ==
  /\ sessCall.op = "Decompose"
  /\ sessCall.pc = "add"
  /\ sessCall.i <= Len(sessCall.decomp)
  /\ LET sug == sessCall.decomp[sessCall.i]
     IN IF sug.ID \in DOMAIN tasks
          THEN /\ SessReturned("Decompose", "add task")
               /\ UNCHANGED tasks
          ELSE /\ tasks' = AddTaskTo(tasks, sug.ID, sug.DependsOn)
               /\ sessCall' = [sessCall EXCEPT !.i = @ + 1]
               /\ UNCHANGED sessRet
  /\ UNCHANGED <<outsideSession, sessStatus>>

\* the loop is over: Status ready
SessDecomposeReady ==
  /\ sessCall.op = "Decompose"
  /\ sessCall.pc = "add"
  /\ sessCall.i > Len(sessCall.decomp)
  /\ sessStatus' = "ready"
  /\ SessReturned("Decompose", "")
  /\ UNCHANGED <<outsideSession, tasks>>

\* Execute up to Executor.Run: Status running
SessExecuteBegin ==
  /\ SessMayCall
  /\ sessStatus' = "running"
  /\ sessCall' = [op |-> "Execute", pc |-> "run", decomp |-> <<>>, i |-> 0]
  /\ UNCHANGED <<outsideSession, tasks, sessRet>>

\* the tasks a run can still complete: those whose dependencies can
RECURSIVE Completable(_, _)
Completable(g, S) ==
  LET T == S \cup {id \in DOMAIN g :
                     /\ g[id].Status = StatusPending
                     /\ \A k \in 1..Len(g[id].DependsOn) : g[id].DependsOn[k] \in S}
  IN IF T = S THEN S ELSE Completable(g, T)

\* Executor.Run returned nil: every task of the DAG is terminal, none failed
SessExecuteOk ==
  /\ sessCall.op = "Execute"
  /\ ~HasFailed(tasks)
  /\ LET terminal == {id \in DOMAIN tasks : IsTerminal(tasks[id].Status)}
     IN /\ Completable(tasks, terminal) = DOMAIN tasks
        /\ tasks' = [id \in DOMAIN tasks |->
                       IF id \in terminal THEN tasks[id]
                       ELSE [tasks[id] EXCEPT !.Status = StatusCompleted,
                                              !.BranchName = "task/" \o id]]
  /\ sessStatus' = "merging"
  /\ SessReturned("Execute", "")
  /\ UNCHANGED outsideSession

\* Executor.Run returned an error: a ready task failed, or nothing was ready
\* and the context was cancelled, or a task had failed before: Status failed
SessExecuteError ==
  /\ sessCall.op = "Execute"
  /\ ~(AllCompleted(tasks) /\ ~HasFailed(tasks))
  /\ \/ /\ ~AllCompleted(tasks)
        /\ ~HasFailed(tasks)
        /\ \E id \in ReadyTasks(tasks) : tasks' = SetTaskFailed(tasks, id)
     \/ /\ HasFailed(tasks) \/ ReadyTasks(tasks) = {}
        /\ UNCHANGED tasks
  /\ sessStatus' = "failed"
  /\ SessReturned("Execute", "run")
  /\ UNCHANGED outsideSession

\* Merge: the plan over the completed tasks with a branch, Merger.Merge, and
\* the Status its outcome gives
SessMerge ==
  /\ SessMayCall
  /\ \E outcome \in {"error", "not success", "success"} :
       /\ sessStatus' = IF outcome = "success" THEN "completed" ELSE "failed"
       /\ sessRet' = [n |-> sessRet.n + 1, op |-> "Merge",
                      err |-> IF outcome = "success" THEN "" ELSE outcome]
  /\ UNCHANGED <<outsideSession, tasks, sessCall>>

NextSession ==
  \/ SessDecomposeBegin
  \/ SessDecomposeError
  \/ SessDecomposeParsed
  \/ SessDecomposeAddTask
  \/ SessDecomposeReady
  \/ SessExecuteBegin
  \/ SessExecuteOk
  \/ SessExecuteError
  \/ SessMerge

SpecSession == InitSession /\ [][NextSession]_vars

(***************************************************************************)
(* agent.Merger.mergeSequentialWithAgent over worktree.Manager.Merge        *)
(***************************************************************************)
\* most branches in a plan; CreateMergePlan picks "sequential" up to 3
MaxBranches == 3

\* the branches of completed tasks and the lines each changed since the
\* common base: task-a and task-b are siblings changing the same line
MergeBranches == {"task-a", "task-b", "task-c"}
BranchLines ==
  [b \in MergeBranches |->
     CASE b = "task-a" -> {"f.go:1"}
       [] b = "task-b" -> {"f.go:1"}
       [] OTHER -> {"g.go:1"}]

\* the file of a line
FileOf(line) == IF line = "f.go:1" THEN "f.go" ELSE "g.go"

\* the plans: branches in any order, none twice
MergePlans ==
  {p \in SeqsUpTo(MergeBranches, MaxBranches) :
     \A i, j \in 1..Len(p) : i # j => p[i] # p[j]}

\* a MergeResult{Success: true}
NewMergeResult ==
  [Success |-> TRUE, MergedCount |-> 0, FailedBranches |-> <<>>,
   Conflicts |-> <<>>, ResolvedByAgent |-> <<>>, MergeCommit |-> 0]

\* the repository checkout: the lines merged into the target so far, the
\* merge in progress ("" for none) with its unmerged files, the number of
\* commits made (the revision of HEAD)
CleanRepo == [lines |-> {}, merging |-> "", unmerged |-> {}, head |-> 0]

InitMerge ==
  /\ tasks = <<>>
  /\ dagRet = [op |-> "NewDAG"]
  /\ ExecIdle
  /\ RpcIdle
  /\ NewManager
  /\ waiters = <<>>
  /\ sessCall = [op |-> "none", pc |-> "", decomp |-> <<>>, i |-> 0]
  /\ sessRet = [n |-> 0, op |-> "none", err |-> ""]
  /\ TaskIdle
  /\ HubIdle
  /\ repo = CleanRepo
  /\ \E plan \in MergePlans :
       mrg = [pc |-> "spawn", plan |-> plan, i |-> 1, result |-> NewMergeResult,
              mergeErr |-> "", files |-> {}, why |-> <<>>, ret |-> "none"]

outsideMerge == <<dagVars, execVars, rpcVars, agentVars, sessionVars, taskVars, hubVars>>

\* the files git reports unmerged when branch b is merged into the target
ConflictFiles(r, b) == {FileOf(l) : l \in BranchLines[b] \cap r.lines}

\* git merge --no-ff of a branch without conflicts: one merge commit
gitMergeClean(r, b) ==
  [r EXCEPT !.lines = @ \cup BranchLines[b], !.head = @ + 1]

\* git merge --no-ff of a conflicting branch: the merge stays in progress
gitMergeConflict(r, b) ==
  [r EXCEPT !.merging = b, !.unmerged = ConflictFiles(r, b)]

\* git merge --abort
gitMergeAbort(r) == [r EXCEPT !.merging = "", !.unmerged = {}]

\* worktree HasConflicts: the unmerged files of the merge in progress
HasConflicts(r) ==
  [hasConflicts |-> r.unmerged # {}, conflictFiles |-> r.unmerged]

\* worktree AbortMerge: the merge in progress is given up
AbortMerge(r) == gitMergeAbort(r)

\* git commit of a merge whose conflicts were resolved
gitCommitMerge(r) ==
  [r EXCEPT !.lines = @ \cup BranchLines[r.merging], !.merging = "",
            !.unmerged = {}, !.head = @ + 1]

\* the mutant: Success is left as it was
BranchFailedKeepsSuccess(m, why, conflicts) ==
  [m EXCEPT !.result.FailedBranches = Append(@, m.plan[m.i]),
            !.result.Conflicts = @ \o conflicts,
            !.why = Append(@, why),
            !.i = @ + 1,
            !.pc = "loop",
            !.files = {}]

\* the branch is recorded as failed, with the conflict files when the code
\* appends them, and the loop goes to the next branch
BranchFailed(m, why, conflicts) ==
  [m EXCEPT !.result.FailedBranches = Append(@, m.plan[m.i]),
            !.result.Conflicts = @ \o conflicts,
            !.result.Success = FALSE,
            !.why = Append(@, why),
            !.i = @ + 1,
            !.pc = "loop",
            !.files = {}]

\* a set as a list, in some order
RECURSIVE SetToSeq(_)
SetToSeq(S) ==
  IF S = {} THEN <<>>
  ELSE LET x == CHOOSE y \in S : TRUE IN <<x>> \o SetToSeq(S \ {x})

\* checkoutBranch returns nil; SpawnAgent for the merger agent
MergeSpawn ==
  /\ mrg.pc = "spawn"
  /\ \/ mrg' = [mrg EXCEPT !.pc = "loop"]
     \/ mrg' = [mrg EXCEPT !.pc = "returned", !.ret = "spawn merger agent"]
  /\ UNCHANGED <<outsideMerge, repo>>

\* one turn of the loop up to the test of Merge's error: worktree Merge runs
\* git merge; on an error it runs git merge --abort, dropping that command's
\* own error, and returns the error
MergeBranch ==
  /\ mrg.pc = "loop"
  /\ mrg.i <= Len(mrg.plan)
  /\ LET b == mrg.plan[mrg.i]
     IN \/ /\ ConflictFiles(repo, b) = {}
           /\ repo.merging = ""
           /\ repo' = gitMergeClean(repo, b)
           /\ mrg' = [mrg EXCEPT !.result.MergedCount = @ + 1,
                                 !.result.MergeCommit =
                                    IF @ = 0 THEN repo'.head ELSE @,
                                 !.i = @ + 1]
        \/ /\ ConflictFiles(repo, b) # {}
           /\ repo.merging = ""
           /\ \/ repo' = gitMergeAbort(gitMergeConflict(repo, b))
              \/ repo' = gitMergeConflict(repo, b)
           /\ mrg' = [mrg EXCEPT !.pc = "conflicts", !.mergeErr = "conflict"]
        \/ /\ mrg' = [mrg EXCEPT !.pc = "conflicts", !.mergeErr = "other"]
           /\ \/ repo' = gitMergeAbort(repo)
              \/ repo' = repo
  /\ UNCHANGED outsideMerge

\* HasConflicts and the branches on its result
MergeHasConflicts ==
  /\ mrg.pc = "conflicts"
  /\ \/ /\ mrg' = BranchFailed(mrg, "conflict query error", <<>>)
        /\ \/ repo' = AbortMerge(repo)
           \/ repo' = repo
     \/ /\ HasConflicts(repo).hasConflicts
        /\ mrg' = [mrg EXCEPT !.pc = "resolve",
                              !.files = HasConflicts(repo).conflictFiles]
        /\ UNCHANGED repo
     \/ /\ ~HasConflicts(repo).hasConflicts
        /\ mrg' = BranchFailed(mrg, "no conflicts", <<>>)
        /\ UNCHANGED repo
  /\ UNCHANGED outsideMerge

\* resolveConflictsWithAgent: SendTask, WaitForCompletion, the output
MergeResolve ==
  /\ mrg.pc = "resolve"
  /\ \/ /\ mrg' = BranchFailed(mrg, "agent error", SetToSeq(mrg.files))
        /\ \/ repo' = AbortMerge(repo)
           \/ repo' = repo
     \/ /\ mrg' = BranchFailed(mrg, "not resolved", SetToSeq(mrg.files))
        /\ \/ repo' = AbortMerge(repo)
           \/ repo' = repo
     \/ /\ mrg' = [mrg EXCEPT !.pc = "commit"]
        /\ repo' = [repo EXCEPT !.unmerged = {}]
  /\ UNCHANGED outsideMerge

\* CommitChanges on the resolved merge
MergeCommitResolved ==
  /\ mrg.pc = "commit"
  /\ \/ /\ mrg' = BranchFailed(mrg, "commit error", <<>>)
        /\ \/ repo' = AbortMerge(repo)
           \/ repo' = repo
     \/ /\ repo' = gitCommitMerge(repo)
        /\ mrg' = [mrg EXCEPT !.result.MergedCount = @ + 1,
                              !.result.ResolvedByAgent = Append(@, mrg.plan[mrg.i]),
                              !.result.MergeCommit =
                                 IF @ = 0 THEN repo'.head ELSE @,
                              !.i = @ + 1,
                              !.pc = "loop",
                              !.files = {}]
  /\ UNCHANGED outsideMerge

\* the loop is over: the deferred StopAgent, then the result is returned
MergeReturn ==
  /\ mrg.pc = "loop"
  /\ mrg.i > Len(mrg.plan)
  /\ mrg' = [mrg EXCEPT !.pc = "returned", !.ret = "nil"]
  /\ UNCHANGED <<outsideMerge, repo>>

NextMerge ==
  \/ MergeSpawn
  \/ MergeBranch
  \/ MergeHasConflicts
  \/ MergeResolve
  \/ MergeCommitResolved
  \/ MergeReturn

SpecMerge == InitMerge /\ [][NextMerge]_vars

(***************************************************************************)
(* executeTask in full: the workspace, the agent and the cleanup of the    *)
(* goroutines of two tasks launched side by side                           *)
(***************************************************************************)
\* the steps of executeTask whose failure calls cleanup or cleanupWorktree
\* after the agent step was reached
StepErrors ==
  {"spawn agent", "send task", "agent execution: agent task failed",
   "agent execution: context canceled", "commit changes"}

InitTask ==
  /\ env = [reader |-> FALSE, cancellable |-> TRUE, revs |-> {"", "sha"}]
  /\ tasks = [id \in DOMAIN DagIndependent |->
                [NewTask(DagIndependent[id]) EXCEPT !.Status = StatusRunning]]
  /\ dagRet = [op |-> "NewDAG"]
  /\ sessStatus = "none"
  /\ maxParallel = 2
  /\ pc = "top"
  /\ batch = <<>>
  /\ sem = 2
  /\ wg = 2
  /\ body = [id \in DOMAIN DagIndependent |-> "create"]
  /\ bodyErr = [id \in DOMAIN DagIndependent |-> ""]
  /\ eventCh = <<>>
  /\ evlog = [id \in DOMAIN DagIndependent |-> <<"started">>]
  /\ ctxDone = FALSE
  /\ runCancelled = FALSE
  /\ runRet = "none"
  /\ work = [id \in DOMAIN DagIndependent |-> "none"]
  /\ reg = [id \in DOMAIN DagIndependent |-> "none"]
  /\ rev = [id \in DOMAIN DagIndependent |-> ""]
  /\ RpcIdle
  /\ NewManager
  /\ waiters = <<>>
  /\ sessCall = [op |-> "none", pc |-> "", decomp |-> <<>>, i |-> 0]
  /\ sessRet = [n |-> 0, op |-> "none", err |-> ""]
  /\ MergeIdle
  /\ HubIdle

\* what no step of executeTask changes
taskFrame ==
  <<rpcVars, agentVars, sessionVars, mergeVars, hubVars, dagRet, sessStatus, maxParallel, pc,
    batch, sem, wg, eventCh, evlog, runCancelled, runRet, env>>

\* executeTask goes to the cleanup named, to return err after it
FailTo(t, err, stage) ==
  /\ bodyErr' = [bodyErr EXCEPT ![t] = err]
  /\ body' = [body EXCEPT ![t] = stage]

\* the caller's context, or the run's, is cancelled
TaskCancelCtx ==
  /\ ~ctxDone
  /\ \E t \in DOMAIN body : body[t] # "done"
  /\ ctxDone' = TRUE
  /\ UNCHANGED <<taskFrame, tasks, body, bodyErr, work, reg, rev>>

\* steps 1-2: the branch name, then worktreeMgr.Create
TaskCreate(t) ==
  /\ body[t] = "create"
  /\ tasks' = [tasks EXCEPT ![t].BranchName = IF @ = "" THEN t ELSE @]
  /\ \E ok \in CommandOutcomes :
       IF ok THEN /\ body' = [body EXCEPT ![t] = "merge"]
                  /\ work' = [work EXCEPT ![t] = "clean"]
                  /\ UNCHANGED bodyErr
             ELSE Fail(t, "create worktree") /\ UNCHANGED work
  /\ UNCHANGED <<taskFrame, ctxDone, reg, rev>>

\* step 3: a dependency branch fails to merge and cleanupWorktree is called,
\* or every one merges
TaskMerge(t) ==
  /\ body[t] = "merge"
  /\ \E ok \in CommandOutcomes :
       IF ok THEN body' = [body EXCEPT ![t] = "spawn"] /\ UNCHANGED bodyErr
             ELSE FailTo(t, "merge dependency branch", "remove")
  /\ UNCHANGED <<taskFrame, tasks, ctxDone, work, reg, rev>>

\* step 4: agentMgr.SpawnAgent; on an error cleanupWorktree
TaskSpawn(t) ==
  /\ body[t] = "spawn"
  /\ \E ok \in CommandOutcomes :
       IF ok THEN /\ body' = [body EXCEPT ![t] = "send"]
                  /\ reg' = [reg EXCEPT ![t] = "registered"]
                  /\ UNCHANGED bodyErr
             ELSE FailTo(t, "spawn agent", "remove") /\ UNCHANGED reg
  /\ UNCHANGED <<taskFrame, tasks, ctxDone, work, rev>>

\* step 5: agentMgr.SendTask; on an error cleanup
TaskSend(t) ==
  /\ body[t] = "send"
  /\ \E ok \in BOOLEAN :
       IF ok THEN body' = [body EXCEPT ![t] = "wait"] /\ UNCHANGED bodyErr
             ELSE FailTo(t, "send task", "cleanup")
  /\ UNCHANGED <<taskFrame, tasks, ctxDone, work, reg, rev>>

\* the agent, working on its turn, changes files of its workspace
TaskAgentEdits(t) ==
  /\ body[t] = "wait"
  /\ work[t] = "clean"
  /\ work' = [work EXCEPT ![t] = "dirty"]
  /\ UNCHANGED <<taskFrame, tasks, body, bodyErr, ctxDone, reg, rev>>

\* step 6: WaitForCompletion returns nil
TaskWaitCompleted(t) ==
  /\ body[t] = "wait"
  /\ body' = [body EXCEPT ![t] = "commit"]
  /\ UNCHANGED <<taskFrame, tasks, bodyErr, ctxDone, work, reg, rev>>

\* step 6: WaitForCompletion returns the agent's failure; cleanup
TaskWaitFailed(t) ==
  /\ body[t] = "wait"
  /\ FailTo(t, "agent execution: agent task failed", "cleanup")
  /\ UNCHANGED <<taskFrame, tasks, ctxDone, work, reg, rev>>

\* step 6: WaitForCompletion returns ctx.Err(); cleanup
TaskWaitCancelled(t) ==
  /\ body[t] = "wait"
  /\ RunCtxDone
  /\ FailTo(t, "agent execution: context canceled", "cleanup")
  /\ UNCHANGED <<taskFrame, tasks, ctxDone, work, reg, rev>>

\* step 7: CommitChanges runs git add, git commit and git rev-parse: with
\* nothing to commit it returns "" and no error; an error after the commit
\* was made leaves the workspace committed; a non-empty revision is stored
\* by UpdateTaskResult
TaskCommit(t) ==
  /\ body[t] = "commit"
  /\ \/ /\ ~RunCtxDone
        /\ work[t] = "dirty"
        /\ rev' = [rev EXCEPT ![t] = "sha"]
        /\ work' = [work EXCEPT ![t] = "clean"]
        /\ tasks' = UpdateTaskResult(tasks, t, "sha")
        /\ body' = [body EXCEPT ![t] = "stop"]
        /\ UNCHANGED bodyErr
     \/ /\ ~RunCtxDone
        /\ work[t] = "clean"
        /\ body' = [body EXCEPT ![t] = "stop"]
        /\ UNCHANGED <<tasks, bodyErr, work, rev>>
     \/ /\ FailTo(t, "commit changes", "cleanup")
        /\ UNCHANGED <<tasks, work, rev>>
     \/ /\ ~RunCtxDone
        /\ work[t] = "dirty"
        /\ FailTo(t, "commit changes", "cleanup")
        /\ work' = [work EXCEPT ![t] = "clean"]
        /\ UNCHANGED <<tasks, rev>>
  /\ UNCHANGED <<taskFrame, ctxDone, reg>>

\* Manager.StopAgent as executeTask and cleanup call it, the error dropped:
\* when Process.Close fails the agent stays registered
StopAgentOutcomes(r) == IF r = "registered" THEN {"stopped", "registered"} ELSE {r}

\* step 8: "_ = e.agentMgr.StopAgent(agentID)", then executeTask returns nil
TaskStopAgent(t) ==
  /\ body[t] = "stop"
  /\ \E r \in StopAgentOutcomes(reg[t]) : reg' = [reg EXCEPT ![t] = r]
  /\ body' = [body EXCEPT ![t] = "result"]
  /\ UNCHANGED <<taskFrame, tasks, bodyErr, ctxDone, work, rev>>

\* cleanup: "_ = e.agentMgr.StopAgent(agentID)"
cleanup(t) ==
  /\ body[t] = "cleanup"
  /\ \E r \in StopAgentOutcomes(reg[t]) : reg' = [reg EXCEPT ![t] = r]
  /\ body' = [body EXCEPT ![t] = "remove"]
  /\ UNCHANGED <<taskFrame, tasks, bodyErr, ctxDone, work, rev>>

\* git worktree remove, run without --force: it refuses a workspace holding
\* changes that are not committed, and it can fail as any command can
RemoveOutcomes(w) == IF w = "clean" THEN {"removed", "clean"} ELSE {w}

\* cleanupWorktree, and the second half of cleanup:
\* "_ = e.worktreeMgr.Remove(context.Background(), worktreePath)"
cleanupWorktree(t) ==
  /\ body[t] = "remove"
  /\ \E w \in RemoveOutcomes(work[t]) : work' = [work EXCEPT ![t] = w]
  /\ body' = [body EXCEPT ![t] = "result"]
  /\ UNCHANGED <<taskFrame, tasks, bodyErr, ctxDone, reg, rev>>

\* "e.dag.SetTaskFailed(t.ID, err.Error())" or "e.dag.SetTaskCompleted(t.ID)",
\* and the rest of the goroutine
TaskSetStatus(t) ==
  /\ body[t] = "result"
  /\ tasks' = IF bodyErr[t] # "" THEN SetTaskFailed(tasks, t) ELSE SetTaskCompleted(tasks, t)
  /\ body' = [body EXCEPT ![t] = "done"]
  /\ UNCHANGED <<taskFrame, bodyErr, ctxDone, work, reg, rev>>

NextTask ==
  \/ TaskCancelCtx
  \/ \E t \in DOMAIN body : TaskCreate(t)
  \/ \E t \in DOMAIN body : TaskMerge(t)
  \/ \E t \in DOMAIN body : TaskSpawn(t)
  \/ \E t \in DOMAIN body : TaskSend(t)
  \/ \E t \in DOMAIN body : TaskAgentEdits(t)
  \/ \E t \in DOMAIN body : TaskWaitCompleted(t)
  \/ \E t \in DOMAIN body : TaskWaitFailed(t)
  \/ \E t \in DOMAIN body : TaskWaitCancelled(t)
  \/ \E t \in DOMAIN body : TaskCommit(t)
  \/ \E t \in DOMAIN body : TaskStopAgent(t)
  \/ \E t \in DOMAIN body : cleanup(t)
  \/ \E t \in DOMAIN body : cleanupWorktree(t)
  \/ \E t \in DOMAIN body : TaskSetStatus(t)

SpecTask == InitTask /\ [][NextTask]_vars




(* Claims on the DAG operations                                            *)
(***************************************************************************)
\* the IDs a task depends on, and the graph they induce
Succ(g, n) == IF n \in DOMAIN g THEN Range(g[n].DependsOn) ELSE {}

RECURSIVE closure(_, _)
closure(g, S) ==
  LET S2 == S \cup UNION {Succ(g, n) : n \in S}
  IN IF S2 = S THEN S ELSE closure(g, S2)

\* the IDs reachable from n along one or more DependsOn edges
Reach(g, n) == closure(g, Succ(g, n))

HasDirectedCycle(g) == \E n \in DOMAIN g : n \in Reach(g, n)

DepsResolvedAndCompleted(g, t) ==
  \A d \in Range(g[t].DependsOn) : d \in DOMAIN g /\ g[d].Status = StatusCompleted

\* C1: a task is in the list ReadyTasks returns exactly when its status is
\* pending and every ID of its DependsOn names a task of the DAG whose status
\* is completed.
C1_ReadySetCorrect ==
  dagRet.op = "ReadyTasks" =>
    /\ dagRet.ids \subseteq DOMAIN tasks
    /\ \A t \in DOMAIN tasks :
         t \in dagRet.ids <=>
           (tasks[t].Status = StatusPending /\ DepsResolvedAndCompleted(tasks, t))

\* ReadyTasks returned a task with dependencies, and left out a pending task
\* whose dependency names no task
C1_Witness ==
  /\ dagRet.op = "ReadyTasks"
  /\ \E t \in dagRet.ids : Len(tasks[t].DependsOn) > 0
  /\ \E t \in DOMAIN tasks \ dagRet.ids :
       /\ tasks[t].Status = StatusPending
       /\ Range(tasks[t].DependsOn) = {UnknownID}

\* C2: HasCycle returns true exactly when the DependsOn graph has a directed
\* cycle (a self-dependency included), and then TopologicalOrder returns an
\* error and no list.
C2_CycleDetected ==
  /\ dagRet.op = "HasCycle" => (dagRet.val <=> HasDirectedCycle(tasks))
  /\ dagRet.op = "TopologicalOrder" /\ HasDirectedCycle(tasks) =>
       dagRet.err /\ dagRet.list = <<>>

\* HasCycle returned true on a cycle through all three tasks
C2_Witness ==
  /\ dagRet.op = "HasCycle"
  /\ dagRet.val
  /\ DOMAIN tasks = DagIDs
  /\ \A n \in DagIDs : Cardinality(Reach(tasks, n) \cap DagIDs) = 3 /\ n \notin Succ(tasks, n)

IsTopologicalList(g, list) ==
  /\ Len(list) = Cardinality(DOMAIN g)
  /\ Range(list) = DOMAIN g
  /\ \A i, j \in 1..Len(list) : list[i] \in Succ(g, list[j]) => i < j

\* C3: on an acyclic DAG, whatever the DependsOn lists hold, TopologicalOrder
\* returns no error and a list with every task once, each after the tasks it
\* depends on.
C3_TopologicalOrderTotal ==
  dagRet.op = "TopologicalOrder" /\ ~HasDirectedCycle(tasks) =>
    ~dagRet.err /\ IsTopologicalList(tasks, dagRet.list)

(***************************************************************************)
(* Claims on Executor.Run                                                  *)
(***************************************************************************)
LegalTransitions ==
  {<<StatusPending, StatusRunning>>, <<StatusRunning, StatusCompleted>>,
   <<StatusRunning, StatusFailed>>, <<StatusPending, StatusCancelled>>,
   <<StatusRunning, StatusCancelled>>}

RunningTasks == {t \in DOMAIN tasks : tasks[t].Status = StatusRunning}

\* C4: every change of a task's status during Run is pending -> running,
\* running -> completed, running -> failed, pending -> cancelled or
\* running -> cancelled.
C4_LegalStatusPaths ==
  [][\A t \in DOMAIN tasks :
       tasks'[t].Status # tasks[t].Status =>
         <<tasks[t].Status, tasks'[t].Status>> \in LegalTransitions]_vars

\* one task went pending -> running -> completed, another pending -> running -> failed
C4_Witness ==
  /\ pc # "idle"
  /\ \E t, u \in DOMAIN tasks :
       /\ tasks[t].Status = StatusCompleted /\ evlog[t] = <<"started", "completed">>
       /\ tasks[u].Status = StatusFailed /\ evlog[u] = <<"started", "failed">>

\* C5: the number of tasks whose status is running never exceeds maxParallel.
C5_RunningWithinMaxParallel ==
  pc \notin {"idle", "execute"} => Cardinality(RunningTasks) <= maxParallel

\* C6: once Run has returned, on any return path, every task has a terminal
\* status and no task status changes any more.
C6_TerminalOnReturn ==
  /\ [](runRet # "none" => AllCompleted(tasks))
  /\ [][runRet # "none" =>
          \A t \in DOMAIN tasks : tasks'[t].Status = tasks[t].Status]_vars

StartedBeforeEnd(log) ==
  \A j \in 1..Len(log) :
    log[j] \in {"completed", "failed"} => \E i \in 1..(j - 1) : log[i] = "started"

\* the event types of task t that are in the channel, oldest first
RECURSIVE typesOf(_, _)
typesOf(ch, t) ==
  IF ch = <<>> THEN <<>>
  ELSE (IF Head(ch).TaskID = t THEN <<Head(ch).EventType>> ELSE <<>>)
         \o typesOf(Tail(ch), t)

\* what is in the channel for t is the tail of what was sent for t
IsSuffix(s, log) ==
  Len(s) <= Len(log) /\ \A i \in 1..Len(s) : s[i] = log[Len(log) - Len(s) + i]

\* C7: for every task the started event is sent on the event channel before
\* its completed or failed event, and the task's status is running at the
\* moment started is sent.
C7_StartedFirstWhileRunning ==
  /\ [](\A t \in DOMAIN evlog :
          /\ StartedBeforeEnd(evlog[t])
          /\ IsSuffix(typesOf(eventCh, t), evlog[t]))
  /\ [][\A t \in DOMAIN evlog :
          evlog'[t] = Append(evlog[t], "started") =>
            tasks[t].Status = StatusRunning /\ tasks'[t].Status = StatusRunning]_vars

\* both events of a task are in the channel, started ahead of completed
C7_Witness ==
  \E t \in DOMAIN evlog :
    /\ evlog[t] = <<"started", "completed">>
    /\ typesOf(eventCh, t) = <<"started", "completed">>

\* C9: on a DAG with a dependency cycle Run refuses to start: no task is
\* marked running and no task body is launched.
C9_CycleRefused ==
  pc # "idle" /\ HasDirectedCycle(tasks) =>
    \A t \in DOMAIN tasks : tasks[t].Status = StatusPending /\ body[t] = "idle"

\* C10: a task is marked running, and its body launched, only in a state
\* where every task it depends on is completed; in the diamond, d only after
\* both b and c.
C10_StartsAfterDependencies ==
  [][\A t \in DOMAIN tasks :
       \/ tasks[t].Status # StatusRunning /\ tasks'[t].Status = StatusRunning
       \/ body[t] = "idle" /\ body'[t] # "idle"
       => DepsResolvedAndCompleted(tasks, t)]_vars

\* the diamond: d is running with its body launched, and b and c ran before
C10_Witness ==
  /\ DOMAIN tasks = DOMAIN DagDiamond
  /\ tasks["d"].DependsOn = <<"b", "c">>
  /\ tasks["d"].Status = StatusRunning
  /\ body["d"] = "wait"
  /\ evlog["b"] = <<"started", "completed">>
  /\ evlog["c"] = <<"started", "completed">>

(***************************************************************************)
(* Claims on Client.Call                                                   *)
(***************************************************************************)
\* C8: no two calls on one client get the same request ID, so no call
\* overwrites the pending slot of another call.
C8_RequestIDsUnique ==
  /\ [](\A c1, c2 \in DOMAIN call :
          c1 # c2 /\ call[c1].id # 0 /\ call[c2].id # 0 => call[c1].id # call[c2].id)
  /\ [][\A id \in DOMAIN pendingCalls :
          id \in DOMAIN pendingCalls' => pendingCalls'[id] = pendingCalls[id]]_vars

\* every caller is blocked in its select, each under an ID of its own
C8_Witness ==
  /\ \A c \in Callers : call[c].pc = "select"
  /\ Cardinality(DOMAIN pendingCalls) = NumCallers
  /\ \A c \in Callers : pendingCalls[call[c].id] = c

(***************************************************************************)
(* Claims on failures and on what Run returns                              *)
(***************************************************************************)
\* executeTask returned the agent's failure: turn/completed with status failed
AgentFailed(t) == bodyErr[t] = "agent execution: agent task failed"

\* the tasks that depend on t, directly or through other tasks
Dependents(g, t) == {u \in DOMAIN g : t \in Reach(g, u)}

\* C11: when the agent of a task reports a failed turn, the task ends failed,
\* no task that depends on it is ever marked running or given a workspace,
\* Run returns an error and the session ends failed.
C11_FailureCascade ==
  \A t \in DOMAIN bodyErr :
    AgentFailed(t) =>
      /\ body[t] \in {"event", "release", "wgdone", "done"} => tasks[t].Status = StatusFailed
      /\ \A u \in Dependents(tasks, t) :
           tasks[u].Status = StatusPending /\ body[u] = "idle" /\ tasks[u].BranchName = ""
      /\ runRet # "nil"
      /\ sessStatus # "merging"
      /\ pc = "returned" /\ sessStatus \notin {"none", "running"} => sessStatus = "failed"

\* the cascade under a session: a's agent failed, Run returned its error, the
\* session is failed, b and c were never started
C11_Witness ==
  /\ DOMAIN tasks = DOMAIN DagCascade
  /\ AgentFailed("a")
  /\ tasks["a"].Status = StatusFailed
  /\ runRet = "failed"
  /\ sessStatus = "failed"
  /\ \A u \in {"b", "c"} : tasks[u].Status = StatusPending /\ body[u] = "idle"

\* C12: at the moment Run returns, its result is an error exactly when some
\* task is failed, and nil exactly when every task is completed.
C12_ErrorIffFailed ==
  [][runRet = "none" /\ runRet' # "none" =>
       /\ runRet' # "nil" <=> HasFailed(tasks')
       /\ runRet' = "nil" <=> \A t \in DOMAIN tasks' : tasks'[t].Status = StatusCompleted]_vars

HasUnresolvedDependency(g) ==
  \E t \in DOMAIN g : \E d \in Range(g[t].DependsOn) : d \notin DOMAIN g

\* C14: when a task lists a dependency ID that names no task, Run returns an
\* error rather than wait for that task to become ready: it is never found
\* waiting in its select with no task body at work.
C14_UnresolvedDependencyIsError ==
  HasUnresolvedDependency(tasks) =>
    ~(pc = "select" /\ \A t \in DOMAIN body : body[t] \in {"idle", "done"})

(***************************************************************************)
(* Claims on Client.Call and Client.readLoop                               *)
(***************************************************************************)
\* call c came back with ctx.Err()
ReturnedCtxErr(c) == call[c].pc = "returned" /\ call[c].ret = "ctx error"

\* C15: a Call whose context is cancelled while it waits returns the
\* context's error with its request ID no longer a key of pendingCalls; a
\* response that comes later for that ID is dropped: the read loop takes it
\* without blocking and it changes no call and no slot.
C15_CancelledCallLeavesNoSlot ==
  /\ [](\A c \in DOMAIN call :
          ReturnedCtxErr(c) =>
            /\ call[c].id \notin DOMAIN pendingCalls
            /\ loop = "reading" =>
                 /\ ENABLED ReadResponse(call[c].id, "result")
                 /\ ~ENABLED (/\ ReadResponse(call[c].id, "result")
                              /\ <<call, pendingCalls>>' # <<call, pendingCalls>>))
  /\ [][\A c \in DOMAIN call :
          /\ call[c].pc = "select" /\ call'[c].pc = "returned"
          /\ call[c].ctxDone /\ call[c].ch = <<>> /\ ~done
          => call'[c].ret = "ctx error"]_vars

\* one call came back with the context's error while the read loop is still
\* reading and another call is still waiting on its slot
C15_Witness ==
  /\ loop = "reading"
  /\ \E c, o \in DOMAIN call :
       /\ ReturnedCtxErr(c)
       /\ call[c].ch = <<>>
       /\ call[o].pc = "select"
       /\ call[o].id \in DOMAIN pendingCalls

\* what a Call released by the end of the read loop can return
ClosedErrors == {"rpc error: client closed", "client closed", "ctx error"}

\* C16: when the read loop hits EOF or a read error, every call pending at
\* that moment is handed the "client closed" error, the pending map is
\* emptied and done is closed; no Call stays blocked once done is closed, and
\* the drained calls return an error.
C16_ReadLoopEndReleasesCalls ==
  /\ [][loop = "reading" /\ loop' = "closing" =>
          /\ pendingCalls' = <<>>
          /\ \A id \in DOMAIN pendingCalls :
               call'[pendingCalls[id]].ch = <<"rpc error: client closed">>]_vars
  /\ [](loop = "closing" => ENABLED ReadLoopExit)
  /\ [](loop = "exited" => done)
  /\ [](done => \A c \in DOMAIN call : call[c].pc = "select" => ENABLED CallSelectDone(c))
  /\ [][\A c \in DOMAIN call :
          /\ call[c].pc = "select" /\ call'[c].pc = "returned"
          /\ call[c].ch = <<"rpc error: client closed">>
          => call'[c].ret \in ClosedErrors]_vars

\* the read loop ended with two calls pending: one came back with the drained
\* error, the other through the closed done channel
C16_Witness ==
  /\ loop = "exited"
  /\ done
  /\ \E c, o \in DOMAIN call :
       /\ call[c].pc = "returned" /\ call[c].ret = "rpc error: client closed"
       /\ call[o].pc = "returned" /\ call[o].ret = "client closed"
       /\ call[o].ch = <<"rpc error: client closed">>

(***************************************************************************)
(* Claims on the agent manager and the server requests                     *)
(***************************************************************************)
\* the requests of subprocess p with the given id whose goroutine has
\* written its response
Answered(p, id) ==
  {n \in 1..Len(srvReqs) :
     /\ srvReqs[n].proc = p
     /\ srvReqs[n].id = id
     /\ srvReqs[n].pc = "done"
     /\ srvReqs[n].wrote}

\* the response lines written to subprocess p that carry the given id
ResponseLines(p, id) ==
  {i \in 1..Len(outbox) : outbox[i].proc = p /\ outbox[i].id = id}

AcceptLines(p, id) ==
  {i \in ResponseLines(p, id) :
     outbox[i].kind = "result" /\ outbox[i].decision = "accept"}

\* the notification handler of subprocess p has just taken a turn/completed
\* with this status for the Instance of subprocess q
TookTurnCompleted(p, q, status) ==
  /\ procs[p].loop = "reading"
  /\ procs'[p].loop = "forwarding"
  /\ procs'[p].fwd = [method |-> "turn/completed", status |-> status]
  /\ procs[p].agentID \in DOMAIN agents
  /\ agents[procs[p].agentID] = q

C18_UnknownMethodIsMethodNotFound ==
  \A p \in 1..Len(procs), id \in RequestIDs :
    Cardinality({i \in ResponseLines(p, id) :
                   outbox[i].kind = "error" /\ outbox[i].code = -32601})
      >= Cardinality({n \in Answered(p, id) :
                        srvReqs[n].method \notin ApprovalMethods})

\* a Manager call returns in this step
Returns(op) == mgrRet'.n = mgrRet.n + 1 /\ mgrRet'.op = op

\* the number of spawned events for an agent ID in Manager.eventCh
SpawnedEvents(ch, id) ==
  Cardinality({i \in 1..Len(ch) :
                 ch[i] = [AgentID |-> id, EventType |-> "spawned"]})

\* C19: SpawnAgent called with a registered ID returns an error; no step of
\* a SpawnAgent that returns an error (duplicate ID, process launch,
\* initialize, thread/start) changes the registry or sends a spawned event,
\* nothing else changes the registry while the call holds the lock, and the
\* subprocess such a call started has its stdin closed when it returns.
C19_FailedSpawnLeavesNoTrace ==
  /\ [](mgrOp.kind = "spawn" /\ mgrOp.pc = "handshake" =>
          /\ mgrOp.id \notin DOMAIN agents
          /\ mgrOp.proc = Len(procs)
          /\ ENABLED SpawnHandshakeFail("initialize"))
  /\ [][/\ Returns("SpawnAgent") /\ mgrRet'.id \in DOMAIN agents /\ MuFree
             => mgrRet'.err = "already exists"
        /\ Returns("SpawnAgent") /\ mgrRet'.err # "" =>
             /\ agents' = agents
             /\ mgrEventCh' = mgrEventCh
             /\ Len(procs') = Len(procs)
             /\ mgrOp.kind = "spawn" => procs'[mgrOp.proc].stdin = "closed"
             /\ mgrOp' = NoOp
        /\ mgrOp.kind = "spawn" /\ mgrOp.pc = "handshake" /\ mgrOp'.pc # "emit" =>
             /\ agents' = agents
             /\ \A id \in AgentIDs :
                  SpawnedEvents(mgrEventCh', id) = SpawnedEvents(mgrEventCh, id)
        /\ MuFree /\ mgrOp'.kind = "spawn" =>
             agents' = agents /\ mgrEventCh' = mgrEventCh]_vars

\* with w1 registered, a SpawnAgent of w2 started a subprocess, failed at
\* thread/start and returned: w1 alone is registered, one spawned event
C19_Witness ==
  /\ mgrRet = [n |-> 2, op |-> "SpawnAgent", id |-> "w2", err |-> "thread start"]
  /\ DOMAIN agents = {"w1"}
  /\ Len(procs) = 2
  /\ procs[2].stdin = "closed"
  /\ procs[1].stdin = "open"
  /\ mgrEventCh = <<[AgentID |-> "w1", EventType |-> "spawned"]>>

\* C20: a WaitForCompletion in its select returns only by receiving from the
\* Instance's completion slot or on its cancelled context, and is blocked
\* otherwise; the slot goes from empty to full only in the notification
\* handler's turn/completed case, with nil for status completed and an error
\* for status failed, so turn/started, other notifications, SendTask and a
\* turn/completed of another status never fill it.
C20_OnlyTurnCompletedWakes ==
  /\ [](\A w \in Waiters :
          waiters[w].pc = "select" =>
            /\ ENABLED WaitSelectDone(w) <=> procs[waiters[w].proc].doneCh # <<>>
            /\ ENABLED WaitSelectCtx(w) <=> waiters[w].ctxDone)
  /\ [][/\ \A w \in Waiters :
             waiters[w].pc = "select" /\ waiters'[w].pc = "returned" =>
               \/ /\ procs[waiters[w].proc].doneCh # <<>>
                  /\ waiters'[w].ret = Head(procs[waiters[w].proc].doneCh)
                  /\ waiters'[w].ret \in {"nil", "agent task failed"}
               \/ /\ waiters[w].ctxDone
                  /\ waiters'[w].ret = "ctx error"
        /\ \A q \in 1..Len(procs) :
             procs[q].doneCh = <<>> /\ procs'[q].doneCh # <<>> =>
               \E p \in 1..Len(procs) :
                 \/ /\ TookTurnCompleted(p, q, "completed")
                    /\ procs'[q].doneCh = <<"nil">>
                 \/ /\ TookTurnCompleted(p, q, "failed")
                    /\ procs'[q].doneCh = <<"agent task failed">>]_vars

\* the agent was sent a task, turn/started was forwarded and did not wake the
\* waiter, the failed turn/completed did
C20_Witness ==
  /\ \E w \in Waiters :
       /\ waiters[w].pc = "returned"
       /\ waiters[w].ret = "agent task failed"
       /\ ~waiters[w].ctxDone
  /\ mgrRet.op = "SendTask"
  /\ Len(mgrEventCh) = 3
  /\ mgrEventCh[2].EventType = "turn/started"
  /\ mgrEventCh[3].EventType = "turn/completed"

\* C21: when the read loop of a registered agent's subprocess has ended (EOF
\* or read error), the Instance is not left in state running: the end of the
\* transport moves it to failed.
C21_TransportEndFailsInstance ==
  \A id \in DOMAIN agents :
    procs[agents[id]].loop = "exited" => procs[agents[id]].State # StateRunning

\* C22: a StopAgent that returns leaves its ID unregistered; called on a
\* registered agent it has closed the subprocess and sent stopped; called on
\* an ID that is not registered it returns "not found" and changes nothing.
C22_StopAgentRemoves ==
  [][Returns("StopAgent") =>
       /\ mgrRet'.id \notin DOMAIN agents'
       /\ mgrOp.kind = "stop" =>
            /\ procs'[mgrOp.proc].stdin = "closed"
            /\ mgrEventCh' = Append(mgrEventCh, [AgentID |-> mgrRet'.id,
                                                 EventType |-> "stopped"])
            /\ mgrRet'.err = ""
       /\ MuFree =>
            /\ mgrRet'.err = "not found"
            /\ UNCHANGED <<agents, procs, mgrEventCh>>]_vars

(***************************************************************************)
(* Claims on the session                                                   *)
(***************************************************************************)
\* the place of a status on the path created .. completed
SessionRank(st) ==
  CASE st = "created" -> 0
    [] st = "decomposing" -> 1
    [] st = "ready" -> 2
    [] st = "running" -> 3
    [] st = "merging" -> 4
    [] st = "completed" -> 5
    [] OTHER -> 6

\* C23: no step of Decompose, Execute or Merge changes the status of a failed
\* or completed session, and every other change of status either moves
\* forward along created, decomposing, ready, running, merging, completed or
\* goes to failed.
C23_StatusMonotonic ==
  [][/\ sessStatus \in {"failed", "completed"} => sessStatus' = sessStatus
     /\ sessStatus' # "failed" => SessionRank(sessStatus') >= SessionRank(sessStatus)]_vars

\* C24: when Decompose returns an error, none of the tasks of the DAG was
\* added by this call.
C24_FailedDecomposeAddsNothing ==
  [][sessRet'.n = sessRet.n + 1 /\ sessRet'.op = "Decompose" /\ sessRet'.err # ""
       => AddedByCall \cap DOMAIN tasks' = {}]_vars

\* C25: in the sequential merge, when merging a branch conflicts the merger
\* agent is sent the conflicting files (unless the query for them fails),
\* and when the resolved merge is committed the branch is counted in
\* MergedCount and listed in ResolvedByAgent while Success stays as it was;
\* so two sibling branches changing the same line give Success = true and
\* MergedCount = 2 when nothing but the conflict goes wrong.
C25_ConflictGoesToAgent ==
  [][/\ (mrg.pc = "conflicts" /\ mrg.mergeErr = "conflict") =>
            \/ /\ mrg'.pc = "resolve"
               /\ mrg'.files = ConflictFiles(repo, mrg.plan[mrg.i])
            \/ /\ mrg'.why # <<>>
               /\ mrg'.why[Len(mrg'.why)] = "conflict query error"
     /\ (mrg.pc = "commit" /\ repo'.head = repo.head + 1) =>
            /\ mrg'.result.MergedCount = mrg.result.MergedCount + 1
            /\ mrg'.result.ResolvedByAgent =
                 Append(mrg.result.ResolvedByAgent, mrg.plan[mrg.i])
            /\ mrg'.result.Success = mrg.result.Success]_vars

\* the stages of a goroutine inside its call of executeTask
ExecuteTaskStages == {"started", "create", "merge", "spawn", "send", "wait", "commit"}
InExecuteTask == {t \in DOMAIN body : body[t] \in ExecuteTaskStages}

\* C26: once the Executor is made, maxParallel is at least 1 (a value <= 0
\* handed to NewExecutor counts as 1) and the number of executeTask
\* invocations launched and not yet returned is at most maxParallel.
C26_ParallelismBound ==
  pc \notin {"idle", "execute"} =>
    /\ maxParallel >= 1
    /\ Cardinality(InExecuteTask) <= sem
    /\ sem <= maxParallel

\* the bound is met while the main loop waits for a slot for one more task
C26_Witness ==
  /\ pc = "acquire"
  /\ Cardinality(InExecuteTask) = maxParallel
  /\ body[Head(batch)] = "idle"

\* C27: Executor.Run has returned only when every goroutine it launched has
\* returned, whichever return it took.
C27_ReturnsAfterBodies ==
  pc = "returned" => \A t \in DOMAIN body : body[t] \in {"idle", "done"}

\* C29: a task marked failed after its body failed at SpawnAgent, SendTask,
\* WaitForCompletion or CommitChanges has its workspace removed and its
\* agent, if one was spawned, stopped; a task marked completed has its agent
\* stopped and its workspace kept.
C29_CleanupBeforeFailed ==
  \A t \in DOMAIN tasks :
    /\ (tasks[t].Status = StatusFailed /\ bodyErr[t] \in StepErrors) =>
          (work[t] = "removed" /\ reg[t] # "registered")
    /\ tasks[t].Status = StatusCompleted =>
          (reg[t] = "stopped" /\ work[t] \in {"clean", "dirty"})

\* C30: a task's ResultCommit is non-empty only if its status is completed,
\* and a completed task's ResultCommit is non-empty exactly when
\* CommitChanges returned a non-empty revision for it.
C30_ResultCommitOnlyCompleted ==
  \A t \in DOMAIN tasks :
    /\ tasks[t].ResultCommit # "" => tasks[t].Status = StatusCompleted
    /\ tasks[t].Status = StatusCompleted =>
          (tasks[t].ResultCommit # "" <=> rev[t] # "")

C31_TurnCompletedEffects ==
  [][\A p, q \in 1..Len(procs) :
       /\ TookTurnCompleted(p, q, "completed") =>
            /\ procs'[q].State = StateCompleted
            /\ procs'[q].doneCh = IF procs[q].doneCh = <<>> THEN <<"nil">> ELSE procs[q].doneCh
       /\ TookTurnCompleted(p, q, "failed") =>
            /\ procs'[q].State = StateFailed
            /\ procs'[q].doneCh =
                 IF procs[q].doneCh = <<>> THEN <<"agent task failed">> ELSE procs[q].doneCh
       /\ (\E st \in TurnStatuses \ {"completed", "failed"} : TookTurnCompleted(p, q, st)) =>
            /\ procs'[q].State = procs[q].State
            /\ procs'[q].doneCh = procs[q].doneCh]_vars

\* a running agent's turn/completed with status interrupted has been taken
\* and is being forwarded: the Instance is still running, its slot empty
C31_Witness ==
  \E p \in 1..Len(procs) :
    /\ procs[p].loop = "forwarding"
    /\ procs[p].fwd = [method |-> "turn/completed", status |-> "interrupted"]
    /\ procs[p].agentID \in DOMAIN agents
    /\ agents[procs[p].agentID] = p
    /\ procs[p].State = StateRunning
    /\ procs[p].doneCh = <<>>

\* C32: when worktree Merge fails on a conflict it returns its error with
\* the merge left in progress, so that HasConflicts called right after it
\* reports the conflicting files.
C32_ConflictLeftInProgress ==
  [][(mrg.pc = "loop" /\ mrg'.pc = "conflicts" /\ mrg'.mergeErr = "conflict") =>
       /\ repo'.merging = mrg.plan[mrg.i]
       /\ HasConflicts(repo').hasConflicts
       /\ HasConflicts(repo').conflictFiles = ConflictFiles(repo, mrg.plan[mrg.i])]_vars

\* the event the goroutine of task t sends at its stage, if it sends one
EventAt(t) ==
  IF body[t] = "started" THEN <<[TaskID |-> t, EventType |-> "started"]>>
  ELSE IF body[t] = "event"
    THEN <<[TaskID |-> t,
            EventType |-> IF bodyErr[t] # "" THEN "failed" ELSE "completed"]>>
  ELSE <<>>

\* C33: the event channel holds at most 256 events; a goroutine moves past
\* a send exactly by appending its event at the tail, the reader takes the
\* head, and nothing else changes the channel, so no event is dropped or
\* overtaken; a goroutine at a send while the channel is full cannot move
\* until the reader has taken an event.
C33_EventsInOrder ==
  /\ [](Len(eventCh) <= EventChCap)
  /\ [](\A t \in DOMAIN body :
          (EventAt(t) # <<>> /\ Len(eventCh) = EventChCap) => ~ENABLED BodyStep(t))
  /\ [][/\ \A t \in DOMAIN body :
             (EventAt(t) # <<>> /\ body'[t] # body[t]) =>
               /\ Len(eventCh) < EventChCap
               /\ eventCh' = eventCh \o EventAt(t)
        /\ eventCh' # eventCh =>
             \/ \E t \in DOMAIN body :
                  /\ EventAt(t) # <<>>
                  /\ body'[t] # body[t]
                  /\ eventCh' = eventCh \o EventAt(t)
             \/ /\ eventCh # <<>>
                /\ eventCh' = Tail(eventCh)
                /\ body' = body]_vars

\* the channel is full, a's started event behind those of the earlier tasks,
\* and the goroutine of a waits to send its last event
C33_Witness ==
  /\ Len(eventCh) = EventChCap
  /\ "a" \in DOMAIN body
  /\ body["a"] = "event"
  /\ eventCh[EventChCap] = [TaskID |-> "a", EventType |-> "started"]
  /\ eventCh[EventChCap - 1].TaskID = ToString(EarlierTasks)

\* C34: within one Run every task is marked running and launched at most
\* once, whatever the interleaving: Run marks only a task that is still
\* pending and whose goroutine was never started, it starts only a goroutine
\* that was never started, and no task goes back to pending nor any
\* goroutine back to not started.
C34_LaunchedAtMostOnce ==
  [][\A t \in DOMAIN tasks :
       /\ (pc = "mark" /\ pc' = "acquire" /\ Head(batch) = t) =>
            tasks[t].Status = StatusPending /\ body[t] = "idle"
       /\ (tasks'[t].Status = StatusRunning /\ tasks[t].Status # StatusRunning) =>
            tasks[t].Status = StatusPending /\ pc = "mark" /\ Head(batch) = t
       /\ (body'[t] = "started" /\ body[t] # "started") =>
            body[t] = "idle" /\ pc = "acquire" /\ Head(batch) = t
       /\ tasks'[t].Status = StatusPending => tasks[t].Status = StatusPending
       /\ body'[t] = "idle" => body[t] = "idle"]_vars

\* Run is about to mark a task of a later ready list while the goroutine of
\* a task it launched before is still in flight
C34_Witness ==
  /\ pc = "mark"
  /\ runRet = "none"
  /\ \E t \in DOMAIN tasks :
       /\ t # Head(batch)
       /\ body[t] \notin {"idle", "done"}
       /\ Head(batch) \in DOMAIN tasks
       /\ t \in Range(tasks[Head(batch)].DependsOn)

\* C35: once some task has status failed, Run marks no further task running
\* and launches no further goroutine, the remaining tasks of a ready list
\* computed before the failure included.
C35_NoLaunchAfterFailure ==
  [][HasFailed(tasks) =>
       \A t \in DOMAIN tasks :
         /\ tasks'[t].Status = StatusRunning => tasks[t].Status = StatusRunning
         /\ body'[t] = "started" => body[t] = "started"]_vars

\* no WaitForCompletion is in its select on Instance q
NobodyWaits(q) == \A w \in Waiters : ~(waiters[w].pc = "select" /\ waiters[w].proc = q)

\* C36: a turn/completed with status completed or failed that is handled
\* while the Instance is running (SendTask returned) and before
\* WaitForCompletion is called is not lost: after the handler the completion
\* slot holds the outcome of that turn, which is what the following
\* WaitForCompletion takes without blocking.
C36_OutcomeNotLost ==
  [][\A p, q \in 1..Len(procs) :
       /\ (/\ TookTurnCompleted(p, q, "completed")
           /\ procs[q].State = StateRunning
           /\ NobodyWaits(q)) => procs'[q].doneCh = <<"nil">>
       /\ (/\ TookTurnCompleted(p, q, "failed")
           /\ procs[q].State = StateRunning
           /\ NobodyWaits(q)) => procs'[q].doneCh = <<"agent task failed">>]_vars

\* C37: after a Client.Call has returned, for whatever reason, its request
\* ID is not a key of pendingCalls.
C37_ReturnedNotPending ==
  \A c \in Callers : call[c].pc = "returned" => call[c].id \notin DOMAIN pendingCalls

\* C39: in every MergeResult a sequential merge returns, every branch of the
\* plan is counted exactly once, in MergedCount or in FailedBranches
\* (MergedCount + len(FailedBranches) = len(plan.Branches), FailedBranches
\* holding branches of the plan in plan order, none twice), Success is true
\* exactly when FailedBranches is empty, and a branch that is recorded as
\* failed is followed by the next turn of the loop, not by the return.
C39_EveryBranchCounted ==
  /\ []((mrg # <<>> /\ mrg.pc = "returned" /\ mrg.ret = "nil") =>
          LET res == mrg.result
          IN /\ res.MergedCount + Len(res.FailedBranches) = Len(mrg.plan)
             /\ res.Success <=> res.FailedBranches = <<>>
             /\ \E idx \in [1..Len(res.FailedBranches) -> 1..Len(mrg.plan)] :
                  /\ \A k \in DOMAIN idx : res.FailedBranches[k] = mrg.plan[idx[k]]
                  /\ \A k, l \in DOMAIN idx : k < l => idx[k] < idx[l])
  /\ [][(mrg # <<>> /\ mrg'.result.FailedBranches # mrg.result.FailedBranches) =>
          /\ mrg'.result.FailedBranches = Append(mrg.result.FailedBranches, mrg.plan[mrg.i])
          /\ mrg'.pc = "loop"
          /\ mrg'.i = mrg.i + 1
          /\ mrg'.result.MergedCount = mrg.result.MergedCount]_vars

\* a plan of three was worked off: the second branch failed, the first and
\* the third were merged
C39_Witness ==
  /\ mrg # <<>>
  /\ mrg.pc = "returned"
  /\ mrg.ret = "nil"
  /\ Len(mrg.plan) = 3
  /\ mrg.result.FailedBranches = <<mrg.plan[2]>>
  /\ mrg.result.MergedCount = 2
  /\ ~mrg.result.Success

\* C38: the Manager never blocks forever on its own event channel: with
\* Events() never read, no SpawnAgent or StopAgent is stopped at its send
\* with the registry lock held, and no notification handler is stopped at
\* its forward, with the channel full.
C38_NeverBlockedOnEvents ==
  Len(mgrEventCh) = MgrEventChCap =>
    /\ ~(mgrOp.kind \in {"spawn", "stop"} /\ mgrOp.pc = "emit")
    /\ \A p \in 1..Len(procs) : procs[p].loop # "forwarding"

(***************************************************************************)
(* api.Hub: Run against Register, Unregister and Broadcast, and the read   *)
(* and write loops of the clients of one session                           *)
(***************************************************************************)
\* the connections of the session
HubClients == {"c1", "c2"}
\* most calls of Hub.Broadcast in one behaviour
MaxBroadcasts == 3
\* make(chan Event, 256)
SendCap == 256
\* make(chan broadcastMsg, 256)
BroadcastCap == 256

outsideHub == <<dagVars, execVars, rpcVars, agentVars, sessionVars, mergeVars, taskVars>>

\* c1 is connected and reads slowly: its Send buffer is one short of full;
\* c2 has not connected. The buffers are kept as the number of events held.
InitHub ==
  /\ tasks = <<>>
  /\ dagRet = [op |-> "NewDAG"]
  /\ ExecIdle
  /\ RpcIdle
  /\ NewManager
  /\ waiters = <<>>
  /\ sessCall = [op |-> "none", pc |-> "", decomp |-> <<>>, i |-> 0]
  /\ sessRet = [n |-> 0, op |-> "none", err |-> ""]
  /\ MergeIdle
  /\ TaskIdle
  /\ hub = [pc |-> "select",
            clients |-> <<"c1">>,
            todo |-> <<>>,
            broadcast |-> 0,
            calls |-> 0,
            send |-> [c \in HubClients |-> IF c = "c1" THEN SendCap - 1 ELSE 0],
            closes |-> [c \in HubClients |-> 0],
            conn |-> [c \in HubClients |-> IF c = "c1" THEN "open" ELSE "new"],
            writer |-> [c \in HubClients |-> IF c = "c1" THEN "writing" ELSE "none"]]

\* the list without the first entry equal to c
RemoveClient(list, c) ==
  IF c \notin Range(list) THEN list
  ELSE LET i == CHOOSE k \in 1..Len(list) :
                  list[k] = c /\ \A j \in 1..(k - 1) : list[j] # c
       IN SubSeq(list, 1, i - 1) \o SubSeq(list, i + 1, Len(list))

\* the goroutines stopped at "h.unregister <- client": the read loops that
\* ended, and Run itself inside the default branch of its broadcast case
UnregisterSenders ==
  {c \in HubClients : hub.conn[c] = "unregistering"}
    \cup (IF hub.pc = "unregister" THEN {Head(hub.todo)} ELSE {})

\* handleWebSocket accepted the connection and calls hub.Register
HandleWebSocket(c) ==
  /\ hub.conn[c] = "new"
  /\ hub' = [hub EXCEPT !.conn[c] = "registering"]
  /\ UNCHANGED outsideHub

\* "case client := <-h.register": the rendezvous with Register; the handler
\* goes on to start ReadLoop and WriteLoop
HubRegister(c) ==
  /\ hub.pc = "select"
  /\ hub.conn[c] = "registering"
  /\ hub' = [hub EXCEPT !.clients = Append(@, c),
                        !.conn[c] = "open",
                        !.writer[c] = "writing"]
  /\ UNCHANGED outsideHub

\* ReadLoop: Conn.Read fails, the deferred function calls hub.Unregister
ReadLoopError(c) ==
  /\ hub.conn[c] = "open"
  /\ hub' = [hub EXCEPT !.conn[c] = "unregistering"]
  /\ UNCHANGED outsideHub

\* "case client := <-h.unregister": the rendezvous with a sender; the client
\* is taken from the list and its Send channel closed
HubUnregister(c) ==
  /\ hub.pc = "select"
  /\ c \in UnregisterSenders
  /\ hub' = [hub EXCEPT !.clients = RemoveClient(@, c),
                        !.closes[c] = @ + 1,
                        !.conn[c] = IF @ = "unregistering" THEN "gone" ELSE @]
  /\ UNCHANGED outsideHub

\* Hub.Broadcast: the send on the buffered channel h.broadcast
Broadcast ==
  /\ hub.calls < MaxBroadcasts
  /\ hub.broadcast < BroadcastCap
  /\ hub' = [hub EXCEPT !.broadcast = @ + 1, !.calls = @ + 1]
  /\ UNCHANGED outsideHub

\* "case msg := <-h.broadcast": the list of the session is read
HubBroadcast ==
  /\ hub.pc = "select"
  /\ hub.broadcast > 0
  /\ hub' = [hub EXCEPT !.broadcast = @ - 1,
                        !.todo = hub.clients,
                        !.pc = IF hub.clients = <<>> THEN "select" ELSE "range"]
  /\ UNCHANGED outsideHub

\* one turn of "for _, client := range clients": the event goes into the
\* client's Send buffer, or, the buffer being full, Run calls h.Unregister
HubSend ==
  /\ hub.pc = "range"
  /\ LET c == Head(hub.todo)
     IN IF hub.send[c] < SendCap
          THEN hub' = [hub EXCEPT !.send[c] = @ + 1,
                                  !.todo = Tail(@),
                                  !.pc = IF Len(hub.todo) = 1 THEN "select" ELSE "range"]
          ELSE hub' = [hub EXCEPT !.pc = "unregister"]
  /\ UNCHANGED outsideHub

\* WriteLoop takes an event from Send and writes it
WriteLoopWrite(c) ==
  /\ hub.writer[c] = "writing"
  /\ hub.send[c] > 0
  /\ hub' = [hub EXCEPT !.send[c] = @ - 1]
  /\ UNCHANGED outsideHub

\* WriteLoop: Conn.Write fails and the loop breaks; nothing is unregistered
WriteLoopError(c) ==
  /\ hub.writer[c] = "writing"
  /\ hub' = [hub EXCEPT !.writer[c] = "stopped"]
  /\ UNCHANGED outsideHub

NextHub ==
  \/ \E c \in HubClients : HandleWebSocket(c)
  \/ \E c \in HubClients : HubRegister(c)
  \/ \E c \in HubClients : ReadLoopError(c)
  \/ \E c \in HubClients : HubUnregister(c)
  \/ Broadcast
  \/ HubBroadcast
  \/ HubSend
  \/ \E c \in HubClients : WriteLoopWrite(c)
  \/ \E c \in HubClients : WriteLoopError(c)

SpecHub == InitHub /\ [][NextHub]_vars

\* C40: the Run loop of the hub never blocks on itself: Run is never stopped
\* at the send of h.Unregister for a client whose Send buffer was full with
\* nobody to receive it, and the Send channel of a client is closed at most
\* once.
C40_RunNeverBlocksOnItself ==
  /\ ~(hub.pc = "unregister" /\ ~ENABLED HubUnregister(Head(hub.todo)))
  /\ \A c \in HubClients : hub.closes[c] <= 1
====
